---- MODULE Spec2Model ----
(***************************************************************************)
(* A model of the VCSMS connection and routing subsystem:                  *)
(*   vcsms/server.py            Server (handshake, in/out workers, _send)  *)
(*   vcsms/server_connection.py ServerConnection (client handshake)        *)
(*   vcsms/keys.py              fingerprint                                *)
(*   vcsms/cryptography/aes256.py  decrypt_cbc (order of its checks)       *)
(* The modules the repository imports but that are not among the sources   *)
(* (improved_socket, queue, message_parser, signing, server_db, dhke,      *)
(* sha256, hmac) are modelled from their contract in the specification.    *)
(*                                                                         *)
(* Cryptography is scaled down: keys, digests, groups and IVs are small    *)
(* integers; a signature names the data signed and the key that signed it; *)
(* a ciphertext names its plaintext, key and IV and the shape of its       *)
(* bytes.  Wire packets are sequences of colon-separated fields.           *)
(***************************************************************************)
EXTENDS Integers, Sequences, FiniteSets, TLC

\* ------------------------------------------------------------------ bounds
MaxDhPriv == 2       \* Diffie-Hellman private values drawn from 1..MaxDhPriv
MaxRand == 2         \* challenge plaintexts drawn from 1..MaxRand

\* ------------------------------------------------------- keys and digests
\* An RSA key pair is named by its modulus n; the public key is (exp, mod).
PubKey(n) == <<5, n>>
ServerN == 4
RogueN == ServerN + 1
ClientKeys == {1, 2, 3}

\* sha256.hash_hex of the serialised key, scaled to a digest in 0..15
\* (the 64 hex characters); keys 1 and 2 share their first 32 characters.
sha256_hash_hex(key) == (key[1] + 3 * key[2]) % 16

\* the longest fingerprint keys.fingerprint gives: the whole digest
MaxFpLength == 64

\* keys.fingerprint returning the whole digest, whatever fp_length
fingerprint_whole(key, fp_length) ==
    <<MaxFpLength, sha256_hash_hex(key)>>

\* keys.fingerprint: the first fp_length characters of the digest.  A
\* fingerprint is <<length, prefix>>; halving the length drops the low bits.
fingerprint(key, fp_length) ==
    <<fp_length, sha256_hash_hex(key) \div (2 ^ ((64 - fp_length) \div 16))>>

\* keys.fingerprint's default fp_length
DefaultFpLength == 32
\* the fp_length ServerConnection._handshake passes for the server's key
ServerFpLength == 64

ClientId(n) == fingerprint(PubKey(n), DefaultFpLength)
Ids == {ClientId(n) : n \in ClientKeys}
ServerId == <<1, 0>>          \* the reserved id "0"
NoId == <<0, 0>>

\* dhke groups (generator, modulus), scaled down
group14_2048 == <<2, 11>>
group16_4096 == <<2, 13>>
generate_public_key(priv, group) == (group[1] ^ priv) % group[2]
calculate_shared_key(priv, pub, group) == (pub ^ priv) % group[2]
\* sha256.hash(utils.i_to_b(shared_key)), scaled to 1..16
sha256_hash(shared) == ((5 * shared + 3) % 16) + 1

\* IVs are 128-bit in the code (int.to_bytes(16)); scaled to 3 bits here.
IvLimit == 2 ^ 3
MaxIv == 1           \* IVs the program draws: 1..MaxIv

\* ------------------------------------------------------------ wire fields
NoMsg == [r |-> NoId, t |-> "", v |-> <<>>, ok |-> FALSE]
Msg(r, t, v) == [r |-> r, t |-> t, v |-> v, ok |-> TRUE]
\* decrypted bytes that message_parser.parse_message rejects
BadMsg == [r |-> NoId, t |-> "garbage", v |-> <<>>, ok |-> FALSE]

F(k, s, a, b, c) == [k |-> k, s |-> s, a |-> a, b |-> b, c |-> c, m |-> NoMsg]
Tok(s) == <<F("tok", s, 0, 0, 0)>>
HexF(n) == F("hex", "", n, 0, 0)
\* Python's hex(n): the text "0x" followed by the lowercase digits
hex(n) == F("hex", "0x", n, 0, 0)
JunkF == F("junk", "", 0, 0, 0)
\* text[2:] of such a text: the digits alone
FromIndex2(f) == IF f.k = "hex" /\ f.s = "0x" THEN HexF(f.a) ELSE JunkF
\* bytes that are not UTF-8 text
BinF == F("bin", "", 0, 0, 0)
IdF(id) == F("id", "", id[1], id[2], 0)
\* ciphertext bytes (hex): shape s, plaintext a (a number) or m (a message),
\* made under key b with IV c
CtF(s, a, b, c, m) == [k |-> "ct", s |-> s, a |-> a, b |-> b, c |-> c, m |-> m]

IsTok(pkt, s) == Len(pkt) = 1 /\ pkt[1].k = "tok" /\ pkt[1].s = s
\* int(x, 16) succeeds
IsHex(f) == f.k = "hex"
\* bytes.fromhex(x) succeeds
IsHexBytes(f) == f.k = "ct" \/ (f.k = "hex" /\ f.s # "0x")
IdOf(f) == IF f.k = "id" THEN <<f.a, f.b>> ELSE NoId

\* signing.sign / signing.verify: a signature over the bytes of field d
sign(d, n) == F("sig", d.k, d.a, n, 0)
verify(d, sig, pub) == sig.k = "sig" /\ sig.s = d.k /\ sig.a = d.a /\ sig.b = pub[2]
\* signing.gen_signed_dh
gen_signed_dh(priv, n, group) ==
    <<HexF(generate_public_key(priv, group)),
      sign(HexF(generate_public_key(priv, group)), n)>>

\* aes256.encrypt_cbc
encrypt_cbc(pt, key, iv) == CtF("ok", pt, key, iv, NoMsg)
encrypt_msg(msg, key, iv) == CtF("ok", 0, key, iv, msg)

\* aes256.decrypt_cbc, in the order of its checks: length, block split, the
\* IV's conversion to 16 bytes (inside the block loop, before the MAC is
\* verified), the MAC, PKCS#7, the random padding.
\*   "ok"    returns the plaintext       "fail"  DecryptionFailureException
\*   "error" another exception (OverflowError, IndexError)
decrypt_cbc(ct, key, iv) ==
    IF ct.s \in {"short", "unaligned"} THEN [st |-> "fail", a |-> 0, m |-> NoMsg]
    ELSE IF ct.s # "maconly" /\ (iv < 0 \/ iv >= IvLimit)
        THEN [st |-> "error", a |-> 0, m |-> NoMsg]
    ELSE IF ~(ct.s \in {"ok", "badpad", "maconly"} /\ ct.b = key /\ ct.c = iv)
        THEN [st |-> "fail", a |-> 0, m |-> NoMsg]
    ELSE IF ct.s = "maconly" THEN [st |-> "error", a |-> 0, m |-> NoMsg]
    ELSE IF ct.s = "badpad" THEN [st |-> "fail", a |-> 0, m |-> NoMsg]
    ELSE [st |-> "ok", a |-> ct.a, m |-> ct.m]

\* ------------------------------------------------- aes256, byte by byte
\* The padding and chaining of encrypt_cbc / decrypt_cbc on sequences of
\* bytes, as the code computes them.  The AES rounds of encrypt_block and
\* decrypt_block are not expanded: a keyed bijection on blocks stands for
\* them (decrypt_block runs encrypt_block's rounds backwards).
BlockLen == 16
MacLen == 32
MaxPadBytes == 2048

RECURSIVE XorBits(_, _, _)
XorBits(a, b, n) ==
    IF n = 0 THEN 0
    ELSE (((a % 2) + (b % 2)) % 2) + 2 * XorBits(a \div 2, b \div 2, n - 1)
\* utils.xor_b (contract): bytewise exclusive or
xor_b(a, b) == [i \in 1..Len(a) |-> XorBits(a[i], b[i], 8)]

\* int.to_bytes(len, 'big') of a number below 2^24
to_bytes(n, len) ==
    [i \in 1..len |-> IF len - i > 2 THEN 0 ELSE (n \div (256 ^ (len - i))) % 256]
\* int.from_bytes(b, 'big') of at most two bytes
from_bytes(b) ==
    IF Len(b) = 0 THEN 0 ELSE IF Len(b) = 1 THEN b[1] ELSE 256 * b[1] + b[2]
\* a Python slice s[a:b] with 0 <= a
PySlice(s, a, b) ==
    IF b <= a \/ a >= Len(s) THEN <<>>
    ELSE SubSeq(s, a + 1, IF b > Len(s) THEN Len(s) ELSE b)
Fill(n, byte) == [i \in 1..n |-> byte]

\* add_pkcs7 that adds nothing to data that fills its blocks
add_pkcs7_nofull(data) ==
    IF Len(data) % BlockLen = 0 THEN data
    ELSE data \o Fill(BlockLen - (Len(data) % BlockLen), BlockLen - (Len(data) % BlockLen))

\* lines 48-54
add_pkcs7(data) ==
    data \o Fill(BlockLen - (Len(data) % BlockLen), BlockLen - (Len(data) % BlockLen))

\* lines 56-67: "error" is the IndexError of data[-1] on empty data, "fail"
\* the ValueError
remove_pkcs7(data) ==
    IF Len(data) = 0 THEN [st |-> "error", data |-> <<>>]
    ELSE LET num_padded == data[Len(data)]
         IN  IF num_padded > 16 \/ num_padded = 0 THEN [st |-> "fail", data |-> <<>>]
             ELSE IF Len(data) < num_padded THEN [st |-> "fail", data |-> <<>>]
             ELSE IF \E i \in 1..num_padded : data[Len(data) + 1 - i] # num_padded
                 THEN [st |-> "fail", data |-> <<>>]
             ELSE [st |-> "ok", data |-> SubSeq(data, 1, Len(data) - num_padded)]

\* lines 69-82 (ValueError when the length is no multiple of 16)
split_blocks(data) ==
    [k \in 1..(Len(data) \div BlockLen) |->
        SubSeq(data, (k - 1) * BlockLen + 1, k * BlockLen)]

\* lines 538-577, see above: every byte shifted by the key and its place,
\* the bytes rotated by one place
encrypt_block(key, block) ==
    [i \in 1..BlockLen |-> (block[(i % BlockLen) + 1] + key + i) % 256]
decrypt_block(key, block) ==
    [i \in 1..BlockLen |->
        LET j == IF i = 1 THEN BlockLen ELSE i - 1
        IN  (block[j] + 512 - ((key + j) % 256)) % 256]

\* lines 580-601: pad with the random draws given (the random bytes before
\* are all bb, those after all ba)
pad(data, num_before, num_after, bb, ba) ==
    to_bytes(num_before, 2) \o to_bytes(num_after, 2) \o Fill(num_before, bb)
        \o data \o Fill(num_after, ba)

\* lines 603-617
unpad(data) ==
    LET num_before == from_bytes(PySlice(data, 0, 2))
        num_after == from_bytes(PySlice(data, 2, 4))
    IN  IF num_before + num_after > Len(data) THEN [st |-> "fail", data |-> <<>>]
        ELSE [st |-> "ok", data |-> PySlice(data, num_before + 4, Len(data) - num_after)]

\* hmac.calculate / hmac.verify (contract): 32 bytes that depend on the
\* ciphertext, the IV and the key
RECURSIVE SumBytes(_)
SumBytes(b) ==
    IF Len(b) = 0 THEN 0
    ELSE IF Len(b) = 1 THEN b[1]
    ELSE (SumBytes(SubSeq(b, 1, Len(b) \div 2))
          + 3 * SumBytes(SubSeq(b, (Len(b) \div 2) + 1, Len(b)))) % 251
hmac_calculate(data, iv, key) ==
    [i \in 1..MacLen |-> (SumBytes(data) + 7 * iv + 13 * key + i) % 256]
hmac_verify(mac, data, iv, key) == mac = hmac_calculate(data, iv, key)

\* b''.join(blocks)
Flatten(blocks) ==
    [i \in 1..(Len(blocks) * BlockLen) |->
        blocks[((i - 1) \div BlockLen) + 1][((i - 1) % BlockLen) + 1]]

\* lines 647-656: each block xored with the previous output, then encrypted
cbc_encrypt_blocks(blocks, key, ivb) ==
    LET out[i \in 0..Len(blocks)] ==
            IF i = 0 THEN ivb ELSE encrypt_block(key, xor_b(blocks[i], out[i - 1]))
    IN  [i \in 1..Len(blocks) |-> out[i]]

\* lines 619-662, with pad's random draws given
encrypt_cbc_bytes(data, key, iv, num_before, num_after, bb, ba) ==
    LET padded == add_pkcs7(pad(data, num_before, num_after, bb, ba))
        ciphertext == Flatten(cbc_encrypt_blocks(split_blocks(padded), key,
                                                 to_bytes(iv, BlockLen)))
    IN  ciphertext \o hmac_calculate(ciphertext, iv, key)

\* lines 689-697
cbc_decrypt_blocks(blocks, key, ivb) ==
    [i \in 1..Len(blocks) |->
        xor_b(decrypt_block(key, blocks[i]), IF i = 1 THEN ivb ELSE blocks[i - 1])]

\* lines 664-711: "fail" is DecryptionFailureException, "error" another
\* exception (the OverflowError of iv.to_bytes, the IndexError of
\* remove_pkcs7)
decrypt_cbc_bytes(ciphertext_hmac, key, iv) ==
    IF Len(ciphertext_hmac) < MacLen THEN [st |-> "fail", data |-> <<>>]
    ELSE LET ciphertext == SubSeq(ciphertext_hmac, 1, Len(ciphertext_hmac) - MacLen)
             mac == SubSeq(ciphertext_hmac, Len(ciphertext_hmac) - MacLen + 1,
                           Len(ciphertext_hmac))
         IN  IF Len(ciphertext) % BlockLen # 0 THEN [st |-> "fail", data |-> <<>>]
             ELSE IF ciphertext # <<>> /\ (iv < 0 \/ iv >= IvLimit)
                 THEN [st |-> "error", data |-> <<>>]
             ELSE IF ~hmac_verify(mac, ciphertext, iv, key)
                 THEN [st |-> "fail", data |-> <<>>]
             ELSE LET plaintext == Flatten(cbc_decrypt_blocks(split_blocks(ciphertext),
                                                             key, to_bytes(iv, BlockLen)))
                  IN  IF remove_pkcs7(plaintext).st # "ok"
                      THEN [st |-> remove_pkcs7(plaintext).st, data |-> <<>>]
                      ELSE unpad(remove_pkcs7(plaintext).data)

\* ---------------------------------------------------------------- state
VARIABLES
    kind,             \* per connection: "none", "honest", "raw", "rogue"
    ckey,             \* the key pair a ServerConnection connects with
    cfp,              \* the fingerprint a ServerConnection is configured with
    c2s, s2c,         \* receive queues of the server-side / client-side socket
    sconn, cconn,     \* ImprovedSocket.connected of the server / client side
    spc, shs, ssent,  \* Server._handshake: position, locals, what it sent
    cpc, chs, csent,  \* ServerConnection.connect: position, locals, sends
    client_outboxes,  \* Server._client_outboxes: id -> queue object (0: none)
    queues,           \* the Queue objects, by number
    client_sockets,   \* Server._client_sockets: id -> connection (0: none)
    dbKey, dbLogged,  \* the user directory
    ipc, isend,       \* Server._in_thread: position, the entry of its _send call
    opc, oheld,       \* Server._out_thread: position, the message it popped
    wire,             \* what the out-workers wrote to their sockets, in order
                      \* (rcv: the client's side of the socket was open)
    pushed,           \* every entry _send pushed to an outbox so far
    nframes,          \* frames written by clients so far
    out_queue,        \* ServerConnection._out_queue: the messages queued, numbered
    send_lock,        \* ServerConnection._send_lock: its holder ("": free)
    tout, message,    \* ServerConnection._out_thread: position, the message popped
    caller,           \* the threads calling send() and close(): their positions
    accepted,         \* how many messages send() has queued so far
    preclose,         \* how many it had queued when close() was called
    written,          \* the numbers of the messages _out_thread wrote to the socket
    in_queue,         \* ServerConnection._in_queue: the plaintexts delivered
    tin,              \* ServerConnection._in_thread: position, report, frames taken
    aes               \* a call of encrypt_cbc and decrypt_cbc: arguments, results

vars == <<kind, ckey, cfp, c2s, s2c, sconn, cconn, spc, shs, ssent,
          cpc, chs, csent, client_outboxes, queues, client_sockets,
          dbKey, dbLogged, ipc, isend, opc, oheld, wire, pushed, nframes,
          out_queue, send_lock, tout, message, caller, accepted, preclose, written,
          in_queue, tin, aes>>

workerVars == <<ipc, isend, opc, oheld, wire, pushed, nframes>>

netVars == <<c2s, s2c, sconn, cconn>>
srvHsVars == <<spc, shs, ssent>>
cliHsVars == <<cpc, chs, csent>>
routeVars == <<client_outboxes, queues, client_sockets>>
dbVars == <<dbKey, dbLogged>>
confVars == <<kind, ckey, cfp>>
inVars == <<in_queue, tin>>
connVars == <<out_queue, send_lock, tout, message, caller, accepted, preclose, written,
              inVars>>

Conns == DOMAIN kind

ServerFp == fingerprint(PubKey(ServerN), ServerFpLength)

NoKey == <<0, 0>>
\* an outbox entry: the message, and for the record the connection whose
\* in-worker relayed it (0: made by the server itself), the id whose outbox
\* it was pushed to, and whether that id had a connected session then
Entry(msg, from, to) == [m |-> msg, from |-> from, to |-> to, off |-> FALSE]
NoEntry == Entry(NoMsg, 0, NoId)
InitShs == [c_id |-> NoId, pub |-> NoKey, priv |-> 0, key |-> 0, rnd |-> 0,
            outbox |-> 0, found |-> FALSE, fpOk |-> FALSE, sigOk |-> FALSE, loginOk |-> FALSE,
            respOk |-> FALSE]
InitChs == [spub |-> NoKey, priv |-> 0, key |-> 0, exc |-> "", fpOk |-> FALSE,
            sigOk |-> FALSE, decOk |-> FALSE, gotOk |-> FALSE]

\* the threads of the application that use one ServerConnection: "app"
\* calls send() and in the end close(), "bg" calls send() next to it
Threads == {"app", "bg"}
\* an element of the out-queue: message m, the n-th that send() queued
Out(n, m) == [n |-> n, m |-> m]
NoOut == Out(0, NoMsg)

\* the in-thread of a ServerConnection before its first turn
InitTin == [pc |-> "t_loop", rep |-> "", n |-> 0]

\* no call of the cipher under way
NoCall == [pc |-> "none", data |-> <<>>, key |-> 0, iv |-> 0, ct |-> <<>>,
           out |-> [st |-> "", data |-> <<>>]]

InitConns(C) ==
    /\ kind = [c \in C |-> "none"]
    /\ ckey = [c \in C |-> 0]
    /\ cfp = [c \in C |-> NoId]
    /\ c2s = [c \in C |-> <<>>]
    /\ s2c = [c \in C |-> <<>>]
    /\ sconn = [c \in C |-> FALSE]
    /\ cconn = [c \in C |-> FALSE]
    /\ spc = [c \in C |-> "idle"]
    /\ shs = [c \in C |-> InitShs]
    /\ ssent = [c \in C |-> <<>>]
    /\ cpc = [c \in C |-> "idle"]
    /\ chs = [c \in C |-> InitChs]
    /\ csent = [c \in C |-> <<>>]
    /\ client_outboxes = [i \in Ids |-> 0]
    /\ queues = <<>>
    /\ client_sockets = [i \in Ids |-> 0]
    /\ dbLogged = [i \in Ids |-> FALSE]
    /\ ipc = [c \in C |-> "none"]
    /\ isend = [c \in C |-> NoEntry]
    /\ opc = [c \in C |-> "none"]
    /\ oheld = [c \in C |-> NoEntry]
    /\ wire = <<>>
    /\ pushed = {}
    /\ nframes = 0
    /\ out_queue = [c \in C |-> <<>>]
    /\ send_lock = [c \in C |-> ""]
    /\ tout = [c \in C |-> "t_while"]
    /\ message = [c \in C |-> NoOut]
    /\ caller = [c \in C |-> [th \in Threads |-> "idle"]]
    /\ accepted = [c \in C |-> 0]
    /\ preclose = [c \in C |-> 0]
    /\ written = [c \in C |-> {}]
    /\ in_queue = [c \in C |-> <<>>]
    /\ tin = [c \in C |-> InitTin]

\* ------------------------------------------------------ sockets (contract)
\* ImprovedSocket.recv returns the oldest queued packet; with nothing queued
\* it blocks while the socket is connected and raises SocketException once
\* it is not.  ImprovedSocket.send raises SocketException on a socket that
\* is not connected.  close() disconnects the local side; the peer's reader
\* marks the peer disconnected when it reads the end of the stream.
CanRecv(q) == q # <<>>
RecvFails(q, conn) == q = <<>> /\ ~conn

\* -------------------------------------------------- Server.run / accept
\* Server.run: accept a connection and start its handshake thread; on the
\* other side ServerConnection.connect (kinds "honest" and "rogue") or a
\* client that speaks the wire protocol itself (kind "raw").  A "rogue"
\* connection is a ServerConnection talking to something else than Server.
\* Clients connect one after another: a connection is accepted when the
\* handshakes of the earlier ones are over (their workers keep running).
HandshakeOver(c) ==
    /\ spc[c] \in {"idle", "done", "failed", "crashed"}
    /\ cpc[c] \in {"idle", "connected", "raised"}

Connect(c, k, n, fp) ==
    /\ kind[c] = "none"
    /\ \A d \in Conns : d < c => kind[d] # "none" /\ HandshakeOver(d)
    /\ kind' = [kind EXCEPT ![c] = k]
    /\ ckey' = [ckey EXCEPT ![c] = IF k = "raw" THEN 0 ELSE n]
    /\ cfp' = [cfp EXCEPT ![c] = IF k = "raw" THEN NoId ELSE fp]
    /\ sconn' = [sconn EXCEPT ![c] = TRUE]
    /\ cconn' = [cconn EXCEPT ![c] = TRUE]
    /\ spc' = [spc EXCEPT ![c] = IF k = "rogue" THEN "idle" ELSE "s_start"]
    /\ cpc' = [cpc EXCEPT ![c] = IF k = "raw" THEN "idle" ELSE "c_key"]
    /\ UNCHANGED <<c2s, s2c, shs, ssent, chs, csent, routeVars, dbVars, workerVars,
                   connVars, aes>>

\* ---------------------------------------------------- Server._handshake
\* One step of the handshake thread: the packet just received is consumed;
\* the reply pkt (<<>>: none) is sent, which raises SocketException on a
\* disconnected socket and ends the thread there; close() afterwards.  The
\* locals of a thread that ended are gone.  What is sent to a client that
\* writes the wire itself is recorded in ssent only (RawPackets follows the
\* server's position).
SrvDo(c, pkt, label, close, pc, hs) ==
    /\ c2s' = [c2s EXCEPT ![c] = IF @ = <<>> THEN @ ELSE Tail(@)]
    /\ IF pkt # <<>> /\ ~sconn[c]
       THEN /\ spc' = [spc EXCEPT ![c] = "crashed"]
            /\ shs' = [shs EXCEPT ![c] = InitShs]
            /\ UNCHANGED <<s2c, ssent, sconn>>
       ELSE /\ spc' = [spc EXCEPT ![c] = pc]
            /\ shs' = [shs EXCEPT ![c] = IF pc \in {"failed", "crashed"} THEN InitShs
                                         ELSE hs]
            /\ s2c' = [s2c EXCEPT ![c] = IF pkt # <<>> /\ kind[c] # "raw"
                                         THEN Append(@, pkt) ELSE @]
            /\ ssent' = [ssent EXCEPT ![c] = IF pkt # <<>> THEN Append(@, label) ELSE @]
            /\ sconn' = [sconn EXCEPT ![c] = IF close THEN FALSE ELSE @]

\* a blocking recv that raises SocketException: the thread ends, nothing
\* is closed or undone
SrvRecvRaises(c) ==
    /\ RecvFails(c2s[c], sconn[c])
    /\ spc' = [spc EXCEPT ![c] = "crashed"]
    /\ shs' = [shs EXCEPT ![c] = InitShs]
    /\ UNCHANGED <<c2s, s2c, sconn, ssent>>

\* the handshake thread waiting for the client before sending its key
SrvAnnounce_silent(c) ==
    /\ spc[c] = "s_start"
    /\ spc' = [spc EXCEPT ![c] = "s_identity"]
    /\ UNCHANGED <<confVars, connVars, aes, netVars, shs, ssent, cliHsVars, routeVars,
                   dbVars, workerVars>>

\* lines 105-107
SrvAnnounce(c) ==
    /\ spc[c] = "s_start"
    /\ SrvDo(c, <<HexF(PubKey(ServerN)[1]), HexF(PubKey(ServerN)[2])>>, "pubkey",
             FALSE, "s_identity", shs[c])
    /\ UNCHANGED <<confVars, connVars, aes, cconn, cliHsVars, routeVars, dbVars, workerVars>>

\* identity_check without the comparison of line 127
identity_check_nofp(pkt) ==
    IF IsTok(pkt, "MalformedIdentity") \/ IsTok(pkt, "PubKeyFpMismatch") THEN "silent"
    ELSE IF Len(pkt) # 3 THEN "malformed"
    ELSE IF ~IsHex(pkt[2]) \/ ~IsHex(pkt[3]) THEN "crash"
    ELSE "ok"

\* lines 109-131: what the identity packet leads to
identity_check(pkt) ==
    IF IsTok(pkt, "MalformedIdentity") \/ IsTok(pkt, "PubKeyFpMismatch") THEN "silent"
    ELSE IF Len(pkt) # 3 THEN "malformed"
    ELSE IF ~IsHex(pkt[2]) \/ ~IsHex(pkt[3]) THEN "crash"
    ELSE IF fingerprint(<<pkt[2].a, pkt[3].a>>, DefaultFpLength) # IdOf(pkt[1])
        THEN "mismatch"
    ELSE "ok"

\* lines 108-135
SrvIdentity(c) ==
    /\ spc[c] = "s_identity"
    /\ UNCHANGED <<confVars, connVars, aes, cconn, cliHsVars, routeVars, dbVars, workerVars>>
    /\ \/ SrvRecvRaises(c)
       \/ /\ CanRecv(c2s[c])
          /\ LET pkt == Head(c2s[c])
                 out == identity_check(pkt)
             IN  IF out = "silent" THEN SrvDo(c, <<>>, "", TRUE, "failed", shs[c])
                 ELSE IF out = "malformed"
                     THEN SrvDo(c, Tok("MalformedIdentity"), "MalformedIdentity", TRUE,
                                "failed", shs[c])
                 ELSE IF out = "crash" THEN SrvDo(c, <<>>, "", FALSE, "crashed", shs[c])
                 ELSE IF out = "mismatch"
                     THEN SrvDo(c, Tok("PubKeyIdMismatch"), "PubKeyIdMismatch", TRUE,
                                "failed",
                                [shs[c] EXCEPT !.c_id = IdOf(pkt[1]),
                                               !.pub = <<pkt[2].a, pkt[3].a>>])
                 ELSE \E priv \in 1..MaxDhPriv :
                        SrvDo(c, gen_signed_dh(priv, ServerN, group14_2048), "dh", FALSE,
                              "s_dh",
                              [shs[c] EXCEPT
                                 !.c_id = IdOf(pkt[1]),
                                 !.pub = <<pkt[2].a, pkt[3].a>>,
                                 !.priv = priv,
                                 !.fpOk = (pkt[1].k = "id" /\ <<pkt[1].a, pkt[1].b>> =
                                             <<DefaultFpLength,
                                               sha256_hash_hex(<<pkt[2].a, pkt[3].a>>)
                                                 \div 4>>)])

\* dh_check without the signature verification of line 147
dh_check_noverify(pkt, client_pubkey) ==
    IF IsTok(pkt, "BadSignature") \/ IsTok(pkt, "MalformedDiffieHellman") THEN "silent"
    ELSE IF Len(pkt) # 2 THEN "malformed"
    ELSE IF ~IsHex(pkt[1]) THEN "crash"
    ELSE "ok"

\* dh_check without the comparisons of lines 138 and 142
dh_check_notoken(pkt, client_pubkey) ==
    IF Len(pkt) # 2 THEN "malformed"
    ELSE IF ~verify(pkt[1], pkt[2], client_pubkey) THEN "badsig"
    ELSE IF ~IsHex(pkt[1]) THEN "crash"
    ELSE "ok"

\* lines 137-156: what the client's signed Diffie-Hellman packet leads to
dh_check(pkt, client_pubkey) ==
    IF IsTok(pkt, "BadSignature") \/ IsTok(pkt, "MalformedDiffieHellman") THEN "silent"
    ELSE IF Len(pkt) # 2 THEN "malformed"
    ELSE IF ~verify(pkt[1], pkt[2], client_pubkey) THEN "badsig"
    ELSE IF ~IsHex(pkt[1]) THEN "crash"
    ELSE "ok"

\* server_db.user_login (contract): IDCollision when the id is bound to
\* another key
user_login_collides(id, key) == dbKey[id] # NoKey /\ dbKey[id] # key

\* lines 160-167 with IDCollisionException not handled as a rejection
login_check_pass(id, key) == "ok"

\* lines 159-167: db.user_login and the except clause around it
login_check(id, key) == IF user_login_collides(id, key) THEN "collision" ELSE "ok"

\* lines 136-172
SrvDh(c) ==
    /\ spc[c] = "s_dh"
    /\ UNCHANGED <<confVars, connVars, aes, cconn, cliHsVars, routeVars, workerVars>>
    /\ \/ SrvRecvRaises(c) /\ UNCHANGED dbVars
       \/ /\ CanRecv(c2s[c])
          /\ LET pkt == Head(c2s[c])
                 out == dh_check(pkt, shs[c].pub)
                 id == shs[c].c_id
             IN  IF out = "silent"
                     THEN SrvDo(c, <<>>, "", TRUE, "failed", shs[c]) /\ UNCHANGED dbVars
                 ELSE IF out = "malformed"
                     THEN /\ SrvDo(c, Tok("MalformedDiffieHellman"),
                                   "MalformedDiffieHellman", TRUE, "failed", shs[c])
                          /\ UNCHANGED dbVars
                 ELSE IF out = "badsig"
                     THEN /\ SrvDo(c, Tok("BadSignature"), "BadSignature", TRUE, "failed",
                                   shs[c])
                          /\ UNCHANGED dbVars
                 ELSE IF out = "crash"
                     THEN /\ SrvDo(c, <<>>, "", FALSE, "crashed", shs[c])
                          /\ UNCHANGED dbVars
                 ELSE LET key == sha256_hash(calculate_shared_key(shs[c].priv, pkt[1].a,
                                                                   group14_2048))
                          hs == [shs[c] EXCEPT
                                   !.key = key,
                                   !.sigOk = (pkt[2].k = "sig" /\ pkt[2].b = shs[c].pub[2]
                                              /\ pkt[2].s = pkt[1].k
                                              /\ pkt[2].a = pkt[1].a)]
                      IN  IF login_check(id, shs[c].pub) = "collision"
                          THEN /\ SrvDo(c, Tok("IDCollision"), "IDCollision", TRUE,
                                        "failed", hs)
                               /\ UNCHANGED dbVars
                          ELSE /\ dbKey' = [dbKey EXCEPT ![id] = shs[c].pub]
                               /\ dbLogged' = [dbLogged EXCEPT ![id] = TRUE]
                               /\ \E iv \in 1..MaxIv, r \in 1..MaxRand :
                                    SrvDo(c, <<HexF(iv), encrypt_cbc(r, key, iv)>>,
                                          "challenge", FALSE, "s_confirm",
                                          [hs EXCEPT !.rnd = r,
                                                     !.loginOk = (dbKey[id] \in
                                                                  {NoKey, shs[c].pub})])

\* confirm_check without the comparison of line 189
confirm_check_any(pkt, random_data) ==
    IF IsTok(pkt, "MalformedChallenge") \/ IsTok(pkt, "CouldNotDecrypt") THEN "silent"
    ELSE IF Len(pkt) # 1 \/ ~IsHexBytes(pkt[1]) THEN "malformed"
    ELSE "ok"

\* lines 174-193: what the challenge response leads to
confirm_check(pkt, random_data) ==
    IF IsTok(pkt, "MalformedChallenge") \/ IsTok(pkt, "CouldNotDecrypt") THEN "silent"
    ELSE IF Len(pkt) # 1 \/ ~IsHexBytes(pkt[1]) THEN "malformed"
    ELSE IF pkt[1].a # random_data THEN "incorrect"
    ELSE "ok"

\* lines 173-194
SrvConfirm(c) ==
    /\ spc[c] = "s_confirm"
    /\ UNCHANGED <<confVars, connVars, aes, cconn, cliHsVars, routeVars, dbVars, workerVars>>
    /\ \/ SrvRecvRaises(c)
       \/ /\ CanRecv(c2s[c])
          /\ LET pkt == Head(c2s[c])
                 out == confirm_check(pkt, shs[c].rnd)
             IN  IF out = "silent" THEN SrvDo(c, <<>>, "", TRUE, "failed", shs[c])
                 ELSE IF out = "malformed"
                     THEN SrvDo(c, Tok("MalformedResponse"), "MalformedResponse", TRUE,
                                "failed", shs[c])
                 ELSE IF out = "incorrect"
                     THEN SrvDo(c, Tok("Incorrect"), "Incorrect", TRUE, "failed", shs[c])
                 ELSE SrvDo(c, Tok("OK"), "OK", FALSE, "s_outbox",
                            [shs[c] EXCEPT !.respOk =
                                (Len(pkt) = 1 /\ pkt[1].k = "hex" /\ pkt[1].a = shs[c].rnd)])

\* line 195
SrvOutboxCheck(c) ==
    /\ spc[c] = "s_outbox"
    /\ spc' = [spc EXCEPT ![c] = IF client_outboxes[shs[c].c_id] # 0 THEN "s_get"
                                 ELSE "s_new"]
    /\ shs' = [shs EXCEPT ![c].found = (client_outboxes[shs[c].c_id] # 0)]
    /\ UNCHANGED <<confVars, connVars, aes, netVars, ssent, cliHsVars, routeVars, dbVars, workerVars>>

\* lines 198-199 taken although the id has an outbox
SrvOutboxGet_fresh(c) ==
    /\ spc[c] = "s_get"
    /\ queues' = Append(queues, <<>>)
    /\ client_outboxes' = [client_outboxes EXCEPT ![shs[c].c_id] = Len(queues) + 1]
    /\ shs' = [shs EXCEPT ![c].outbox = Len(queues) + 1]
    /\ spc' = [spc EXCEPT ![c] = "s_register"]
    /\ UNCHANGED <<confVars, connVars, aes, netVars, ssent, cliHsVars, client_sockets, dbVars,
                   workerVars>>

\* line 196
SrvOutboxGet(c) ==
    /\ spc[c] = "s_get"
    /\ shs' = [shs EXCEPT ![c].outbox = client_outboxes[shs[c].c_id]]
    /\ spc' = [spc EXCEPT ![c] = "s_register"]
    /\ UNCHANGED <<confVars, connVars, aes, netVars, ssent, cliHsVars, routeVars, dbVars, workerVars>>

\* lines 198-199
SrvOutboxNew(c) ==
    /\ spc[c] = "s_new"
    /\ queues' = Append(queues, <<>>)
    /\ client_outboxes' = [client_outboxes EXCEPT ![shs[c].c_id] = Len(queues) + 1]
    /\ shs' = [shs EXCEPT ![c].outbox = Len(queues) + 1]
    /\ spc' = [spc EXCEPT ![c] = "s_register"]
    /\ UNCHANGED <<confVars, connVars, aes, netVars, ssent, cliHsVars, client_sockets, dbVars,
                   workerVars>>

\* lines 201-205
SrvRegister(c) ==
    /\ spc[c] = "s_register"
    /\ client_sockets' = [client_sockets EXCEPT ![shs[c].c_id] = c]
    /\ ipc' = [ipc EXCEPT ![c] = "i_loop"]
    /\ opc' = [opc EXCEPT ![c] = "o_loop"]
    /\ spc' = [spc EXCEPT ![c] = "done"]
    /\ shs' = [shs EXCEPT ![c].priv = 0, ![c].rnd = 0]
    /\ UNCHANGED <<confVars, connVars, aes, netVars, ssent, cliHsVars, client_outboxes, queues,
                   dbVars, isend, oheld, wire, pushed, nframes>>

\* ------------------------------------------ ServerConnection._handshake
\* One step of connect(): the packet just received is consumed, pkt (<<>>:
\* none) is sent, the socket is closed when the code closes it, and exc
\* ("": none) is the exception that reaches connect's caller.  A send on a
\* disconnected socket raises SocketException, which connect turns into
\* NetworkError (lines 153-154).
CliDo(c, pkt, label, close, pc, hs) ==
    /\ s2c' = [s2c EXCEPT ![c] = IF @ = <<>> THEN @ ELSE Tail(@)]
    /\ IF pkt # <<>> /\ ~cconn[c]
       THEN /\ cpc' = [cpc EXCEPT ![c] = "raised"]
            /\ chs' = [chs EXCEPT ![c] = [InitChs EXCEPT !.exc = "NetworkError",
                                                         !.fpOk = chs[c].fpOk]]
            /\ UNCHANGED <<c2s, csent, cconn>>
       ELSE /\ cpc' = [cpc EXCEPT ![c] = pc]
            /\ chs' = [chs EXCEPT ![c] = IF pc = "raised"
                                         THEN [InitChs EXCEPT !.exc = hs.exc,
                                                              !.fpOk = hs.fpOk]
                                         ELSE hs]
            /\ c2s' = [c2s EXCEPT ![c] = IF pkt # <<>> THEN Append(@, pkt) ELSE @]
            /\ csent' = [csent EXCEPT ![c] = IF pkt # <<>> THEN Append(@, label) ELSE @]
            /\ cconn' = [cconn EXCEPT ![c] = IF close THEN FALSE ELSE @]

CliRecvRaises(c) ==
    /\ RecvFails(s2c[c], cconn[c])
    /\ cpc' = [cpc EXCEPT ![c] = "raised"]
    /\ chs' = [chs EXCEPT ![c] = [InitChs EXCEPT !.exc = "NetworkError",
                                                 !.fpOk = chs[c].fpOk]]
    /\ UNCHANGED <<c2s, s2c, cconn, csent>>

\* lines 65-75: what the server's key packet leads to
key_check(pkt, fp) ==
    IF Len(pkt) # 2 THEN "malformed"
    ELSE IF ~IsHex(pkt[1]) \/ ~IsHex(pkt[2]) THEN "malformed"
    ELSE IF fingerprint(<<pkt[1].a, pkt[2].a>>, ServerFpLength) # fp THEN "mismatch"
    ELSE "ok"

\* _handshake's default group (line 48) instead of the one connect() passes
ConnectGroup_default == group16_4096

\* line 152: the group connect() passes to _handshake
ConnectGroup == group14_2048

\* lines 63-81
CliKey(c) ==
    /\ cpc[c] = "c_key"
    /\ UNCHANGED <<confVars, connVars, aes, sconn, srvHsVars, routeVars, dbVars, workerVars>>
    /\ \/ CliRecvRaises(c)
       \/ /\ CanRecv(s2c[c])
          /\ LET pkt == Head(s2c[c])
                 out == key_check(pkt, cfp[c])
             IN  IF out = "malformed"
                     THEN CliDo(c, Tok("MalformedIdentity"), "MalformedIdentity", TRUE,
                                "raised",
                                [chs[c] EXCEPT !.exc = "MalformedPacketException"])
                 ELSE IF out = "mismatch"
                     THEN CliDo(c, Tok("PubKeyFpMismatch"), "PubKeyFpMismatch", TRUE,
                                "raised",
                                [chs[c] EXCEPT !.exc = "PublicKeyIdMismatchException"])
                 ELSE \E priv \in 1..MaxDhPriv :
                        CliDo(c, <<IdF(fingerprint(PubKey(ckey[c]), DefaultFpLength)),
                                   HexF(PubKey(ckey[c])[1]), HexF(PubKey(ckey[c])[2])>>,
                              "identity", FALSE, "c_auth",
                              [chs[c] EXCEPT
                                 !.spub = <<pkt[1].a, pkt[2].a>>,
                                 !.priv = priv,
                                 !.fpOk = (<<ServerFpLength,
                                             sha256_hash_hex(<<pkt[1].a, pkt[2].a>>)>>
                                           = cfp[c])])

\* lines 84-100: what the server's signed Diffie-Hellman packet leads to
auth_check(pkt, server_public_key) ==
    IF IsTok(pkt, "MalformedIdentity") \/ IsTok(pkt, "PubKeyIdMismatch") THEN "abort"
    ELSE IF Len(pkt) # 2 THEN "malformed"
    ELSE IF ~verify(pkt[1], pkt[2], server_public_key) THEN "badsig"
    ELSE "ok"

\* lines 83-104
CliAuth(c) ==
    /\ cpc[c] = "c_auth"
    /\ UNCHANGED <<confVars, connVars, aes, sconn, srvHsVars, routeVars, dbVars, workerVars>>
    /\ \/ CliRecvRaises(c)
       \/ /\ CanRecv(s2c[c])
          /\ LET pkt == Head(s2c[c])
                 out == auth_check(pkt, chs[c].spub)
             IN  IF out = "abort"
                     THEN CliDo(c, <<>>, "", TRUE, "raised",
                                [chs[c] EXCEPT !.exc = "ServerConnectionAbort"])
                 ELSE IF out = "malformed"
                     THEN CliDo(c, Tok("MalformedDiffieHellman"), "MalformedDiffieHellman",
                                TRUE, "raised",
                                [chs[c] EXCEPT !.exc = "MalformedPacketException"])
                 ELSE IF out = "badsig"
                     THEN CliDo(c, Tok("BadSignature"), "BadSignature", TRUE, "raised",
                                [chs[c] EXCEPT !.exc = "SignatureVerifyFailureException"])
                 ELSE IF ~IsHex(pkt[1])
                     \* line 103: int(s_dhke_pub, 16) raises ValueError after the send
                     THEN CliDo(c, gen_signed_dh(chs[c].priv, ckey[c], ConnectGroup), "dh",
                                FALSE, "raised",
                                [chs[c] EXCEPT !.exc = "ValueError"])
                 ELSE CliDo(c, gen_signed_dh(chs[c].priv, ckey[c], ConnectGroup), "dh",
                            FALSE, "c_challenge",
                            [chs[c] EXCEPT
                               !.key = sha256_hash(calculate_shared_key(chs[c].priv,
                                                       pkt[1].a, ConnectGroup)),
                               !.sigOk = (pkt[2].k = "sig" /\ pkt[2].b = chs[c].spub[2]
                                          /\ pkt[2].s = pkt[1].k /\ pkt[2].a = pkt[1].a)])

\* lines 107-129: what the encrypted challenge leads to
challenge_check(pkt, key) ==
    IF IsTok(pkt, "MalformedDiffieHellman") \/ IsTok(pkt, "BadSignature")
       \/ IsTok(pkt, "IDCollision") THEN "abort"
    ELSE IF Len(pkt) # 2 THEN "malformed"
    ELSE IF ~IsHex(pkt[1]) \/ ~IsHexBytes(pkt[2]) THEN "malformed"
    ELSE IF decrypt_cbc(pkt[2], key, pkt[1].a).st = "fail" THEN "nodecrypt"
    ELSE IF decrypt_cbc(pkt[2], key, pkt[1].a).st = "error" THEN "error"
    ELSE "ok"

\* lines 106-130
CliChallenge(c) ==
    /\ cpc[c] = "c_challenge"
    /\ UNCHANGED <<confVars, connVars, aes, sconn, srvHsVars, routeVars, dbVars, workerVars>>
    /\ \/ CliRecvRaises(c)
       \/ /\ CanRecv(s2c[c])
          /\ LET pkt == Head(s2c[c])
                 out == challenge_check(pkt, chs[c].key)
             IN  IF out = "abort"
                     THEN CliDo(c, <<>>, "", TRUE, "raised",
                                [chs[c] EXCEPT !.exc = "ServerConnectionAbort"])
                 ELSE IF out = "malformed"
                     THEN CliDo(c, Tok("MalformedChallenge"), "MalformedChallenge", TRUE,
                                "raised",
                                [chs[c] EXCEPT !.exc = "MalformedPacketException"])
                 ELSE IF out = "nodecrypt"
                     THEN CliDo(c, Tok("CouldNotDecrypt"), "CouldNotDecrypt", TRUE,
                                "raised",
                                [chs[c] EXCEPT !.exc = "KeyConfirmationFailureException"])
                 ELSE IF out = "error"
                     \* an exception of decrypt_cbc that line 126 does not catch
                     THEN CliDo(c, <<>>, "", FALSE, "raised",
                                [chs[c] EXCEPT !.exc = "UncaughtError"])
                 ELSE CliDo(c, <<HexF(decrypt_cbc(pkt[2], chs[c].key, pkt[1].a).a)>>,
                            "response", FALSE, "c_final",
                            [chs[c] EXCEPT
                               !.decOk = (pkt[2].s = "ok" /\ pkt[2].b = chs[c].key
                                          /\ pkt[2].c = pkt[1].a)])

\* lines 131-137 and connect's lines 155-158 (the workers start)
CliFinal(c) ==
    /\ cpc[c] = "c_final"
    /\ UNCHANGED <<confVars, connVars, aes, sconn, srvHsVars, routeVars, dbVars, workerVars>>
    /\ \/ CliRecvRaises(c)
       \/ /\ CanRecv(s2c[c])
          /\ LET pkt == Head(s2c[c])
             IN  IF ~IsTok(pkt, "OK")
                     THEN CliDo(c, <<>>, "", TRUE, "raised",
                                [chs[c] EXCEPT !.exc = "ServerConnectionAbort"])
                 ELSE CliDo(c, <<>>, "", FALSE, "connected",
                            [chs[c] EXCEPT !.gotOk = (pkt[1].s = "OK"), !.priv = 0])

\* ---------------------------------------------------------- the peers
\* The end of the stream reaches a side's reader thread after its peer
\* closed: the side is marked disconnected (packets already queued stay).
\* It is followed while a thread of that side can still look at the socket.
SrvReaderEOF(c) ==
    /\ kind[c] \in {"honest", "raw"}
    /\ spc[c] \notin {"failed", "crashed"}
    /\ sconn[c] /\ ~cconn[c]
    /\ sconn' = [sconn EXCEPT ![c] = FALSE]
    /\ UNCHANGED <<confVars, connVars, aes, c2s, s2c, cconn, srvHsVars, cliHsVars, routeVars, dbVars,
                   workerVars>>

CliReaderEOF(c) ==
    /\ kind[c] \in {"honest", "rogue"}
    /\ cpc[c] # "raised" /\ ipc[c] \notin {"done", "crashed"}
    /\ cconn[c] /\ ~sconn[c]
    /\ cconn' = [cconn EXCEPT ![c] = FALSE]
    /\ UNCHANGED <<confVars, connVars, aes, c2s, s2c, sconn, srvHsVars, cliHsVars, routeVars, dbVars,
                   workerVars>>

\* What a client that writes the wire protocol itself may send at each
\* phase of the server's handshake: the abort tokens, unparseable packets,
\* and well-formed packets with right and wrong contents.
RawPackets(c) ==
    IF spc[c] = "s_identity" THEN
        {Tok("MalformedIdentity"), Tok("PubKeyFpMismatch"), <<JunkF>>}
        \cup {<<IdF(i), HexF(PubKey(n)[1]), HexF(n)>> : i \in Ids, n \in ClientKeys}
        \cup {<<IdF(ClientId(1)), JunkF, HexF(1)>>}
    ELSE IF spc[c] = "s_dh" THEN
        {Tok("BadSignature"), Tok("MalformedDiffieHellman"), <<JunkF>>}
        \cup {<<HexF(generate_public_key(x, group14_2048)),
                sign(HexF(generate_public_key(x, group14_2048)), n)>> :
                  x \in 1..MaxDhPriv, n \in {shs[c].pub[2], (shs[c].pub[2] % 3) + 1}}
        \cup {<<JunkF, sign(JunkF, shs[c].pub[2])>>}
    ELSE IF spc[c] = "s_confirm" THEN
        {Tok("MalformedChallenge"), Tok("CouldNotDecrypt"), <<JunkF>>}
        \cup {<<HexF(r)>> : r \in 0..MaxRand}
    ELSE {}

RawSend(c, pkt) ==
    /\ kind[c] = "raw" /\ cconn[c] /\ c2s[c] = <<>>
    /\ pkt \in RawPackets(c)
    /\ c2s' = [c2s EXCEPT ![c] = Append(@, pkt)]
    /\ UNCHANGED <<confVars, connVars, aes, s2c, sconn, cconn, srvHsVars, cliHsVars, routeVars, dbVars,
                   workerVars>>

RawClose(c) ==
    /\ kind[c] = "raw" /\ cconn[c]
    /\ spc[c] \in {"s_start", "s_identity", "s_dh", "s_confirm"}
    /\ cconn' = [cconn EXCEPT ![c] = FALSE]
    /\ UNCHANGED <<confVars, connVars, aes, c2s, s2c, sconn, srvHsVars, cliHsVars, routeVars, dbVars,
                   workerVars>>

\* What the other end of a "rogue" connection may send to a
\* ServerConnection at each phase of its handshake.
RoguePackets(c) ==
    IF cpc[c] = "c_key" THEN
        {<<JunkF>>, <<JunkF, HexF(ServerN)>>}
        \cup {<<HexF(PubKey(n)[1]), HexF(n)>> : n \in {ServerN, RogueN}}
    ELSE IF cpc[c] = "c_auth" THEN
        {Tok("MalformedIdentity"), Tok("PubKeyIdMismatch"), <<JunkF>>}
        \cup {<<HexF(generate_public_key(x, group14_2048)),
                sign(HexF(generate_public_key(x, group14_2048)), n)>> :
                  x \in 1..MaxDhPriv, n \in {ServerN, RogueN}}
        \cup {<<JunkF, sign(JunkF, ServerN)>>}
    ELSE IF cpc[c] = "c_challenge" THEN
        {Tok("MalformedDiffieHellman"), Tok("BadSignature"), Tok("IDCollision"),
         <<JunkF>>, <<HexF(1), JunkF>>, <<JunkF, encrypt_cbc(1, chs[c].key, 1)>>}
        \cup {<<HexF(iv), CtF(sh, r, k, 1, NoMsg)>> :
                iv \in {-1, 1}, sh \in {"ok", "maconly", "badpad", "short"},
                r \in 1..MaxRand, k \in {chs[c].key, (chs[c].key % 16) + 1}}
    ELSE IF cpc[c] = "c_final" THEN
        {Tok("OK"), Tok("MalformedResponse"), Tok("Incorrect")}
    ELSE {}

RogueSend(c, pkt) ==
    /\ kind[c] = "rogue" /\ sconn[c] /\ s2c[c] = <<>>
    /\ pkt \in RoguePackets(c)
    /\ s2c' = [s2c EXCEPT ![c] = Append(@, pkt)]
    /\ UNCHANGED <<confVars, connVars, aes, c2s, sconn, cconn, srvHsVars, cliHsVars, routeVars, dbVars,
                   workerVars>>

RogueClose(c) ==
    /\ kind[c] = "rogue" /\ sconn[c]
    /\ cpc[c] \in {"c_key", "c_auth", "c_challenge", "c_final"}
    /\ sconn' = [sconn EXCEPT ![c] = FALSE]
    /\ UNCHANGED <<confVars, connVars, aes, c2s, s2c, cconn, srvHsVars, cliHsVars, routeVars, dbVars,
                   workerVars>>

RawSendAny(c) == \E pkt \in RawPackets(c) : RawSend(c, pkt)
RogueSendAny(c) == \E pkt \in RoguePackets(c) : RogueSend(c, pkt)

\* Someone on the path between a ServerConnection and the server rewrites
\* the id field of the identity packet in flight.
TamperIdentity(c) ==
    /\ kind[c] = "honest" /\ spc[c] = "s_identity"
    /\ Len(c2s[c]) = 1 /\ Len(c2s[c][1]) = 3
    /\ \E i \in Ids \ {IdOf(c2s[c][1][1])} :
         c2s' = [c2s EXCEPT ![c] = <<[c2s[c][1] EXCEPT ![1] = IdF(i)]>>]
    /\ UNCHANGED <<confVars, connVars, aes, s2c, sconn, cconn, srvHsVars, cliHsVars, routeVars, dbVars,
                   workerVars>>

\* ------------------------------------------------- Server._in_thread
\* an id has a connected session: a handshake completed for it on a socket
\* that is still connected
Online(id) ==
    \E d \in Conns : spc[d] = "done" /\ shs[d].c_id = id /\ sconn[d]

\* the message re-encoded with the first field the client wrote
relay_message_asis(client_id, msg) == Msg(msg.r, msg.t, msg.v)

\* lines 255-257: construct_message(client_id, message_type, *message_values)
relay_message(client_id, msg) == Msg(client_id, msg.t, msg.v)

\* server_db.user_known / get_pubkey (contract): the directory knows an id
\* once a key was bound to it
user_known(id) == dbKey[id] # NoKey
get_pubkey(id) == dbKey[id]

\* _handler_get_key, lines 305-314, and the reply handle() constructs of it
\* _handler_get_key without the directory lookup of line 307
handler_get_key_unknown(request_index, target_id) ==
    Msg(ServerId, "KeyNotFound", <<request_index>>)

handler_get_key(request_index, target_id) ==
    IF user_known(target_id)
    THEN Msg(ServerId, "KeyFound",
             <<request_index, get_pubkey(target_id)[1], get_pubkey(target_id)[2]>>)
    ELSE Msg(ServerId, "KeyNotFound", <<request_index>>)

\* the incoming types without a handler of their own (lines 21-25)
DefaultTypes == {"NoSuchKeyRequest", "MessageMalformed", "CiphertextMalformed",
                 "InvalidIV", "MessageDecryptionFailure"}

\* _handler_unknown (lines 334-343) wired in place of _handler_default
handler_default_reports(message_type, values) ==
    Msg(ServerId, "UnknownMessageType", <<>>)

\* _handler_default (lines 325-332): logs and returns None, so that line 252
\* sends nothing
handler_default(message_type, values) == NoMsg

\* lines 225, 232, 239, 246: construct_message("0", <error type>)
error_msg(type) == Msg(ServerId, type, <<>>)

\* frame_check with the ValueError of lines 222-223 not caught
frame_check_unpack_uncaught(pkt, key) ==
    IF \E k \in 1..Len(pkt) : pkt[k].k = "bin" THEN "crash"
    ELSE IF Len(pkt) < 2 THEN "crash"
    ELSE IF ~IsHex(pkt[1]) THEN "InvalidIV"
    ELSE IF Len(pkt) > 2 \/ ~IsHexBytes(pkt[2]) THEN "crash"
    ELSE IF decrypt_cbc(pkt[2], key, pkt[1].a).st = "fail" THEN "MessageDecryptionFailure"
    ELSE IF decrypt_cbc(pkt[2], key, pkt[1].a).st = "error" THEN "crash"
    ELSE IF ~decrypt_cbc(pkt[2], key, pkt[1].a).m.ok THEN "MessageMalformed"
    ELSE IF decrypt_cbc(pkt[2], key, pkt[1].a).m.r = ServerId THEN "handle"
    ELSE "relay"

\* lines 220-250: what a received frame leads to.  raw.decode() raises
\* UnicodeDecodeError (a ValueError) on bytes that are not text; split(':', 1)
\* needs one colon; int(aes_iv, 16), bytes.fromhex and decrypt_cbc follow, of
\* which only CryptographyException is caught; then parse_message.
frame_check(pkt, key) ==
    IF \E k \in 1..Len(pkt) : pkt[k].k = "bin" THEN "CiphertextMalformed"
    ELSE IF Len(pkt) < 2 THEN "CiphertextMalformed"
    ELSE IF ~IsHex(pkt[1]) THEN "InvalidIV"
    ELSE IF Len(pkt) > 2 \/ ~IsHexBytes(pkt[2]) THEN "crash"
    ELSE IF decrypt_cbc(pkt[2], key, pkt[1].a).st = "fail" THEN "MessageDecryptionFailure"
    ELSE IF decrypt_cbc(pkt[2], key, pkt[1].a).st = "error" THEN "crash"
    ELSE IF ~decrypt_cbc(pkt[2], key, pkt[1].a).m.ok THEN "MessageMalformed"
    ELSE IF decrypt_cbc(pkt[2], key, pkt[1].a).m.r = ServerId THEN "handle"
    ELSE "relay"

\* lines 217-260: one turn of the loop.  With the socket disconnected the
\* loop ends; with a frame queued it is received and treated up to the call
\* of _send (or handled, for a message to "0"); an exception other than
\* SocketException ends the thread where it is.
InLoop(c) ==
    /\ ipc[c] = "i_loop"
    /\ UNCHANGED <<confVars, connVars, aes, s2c, cconn, srvHsVars, cliHsVars, routeVars, dbVars, opc,
                   oheld, wire, pushed, nframes>>
    /\ IF ~sconn[c]
       THEN /\ ipc' = [ipc EXCEPT ![c] = "i_exit"]
            /\ UNCHANGED <<c2s, sconn, isend>>
       ELSE /\ c2s[c] # <<>>
            /\ c2s' = [c2s EXCEPT ![c] = Tail(@)]
            /\ LET pkt == Head(c2s[c])
                   client_id == shs[c].c_id
                   out == frame_check(pkt, shs[c].key)
                   msg == decrypt_cbc(pkt[2], shs[c].key, pkt[1].a).m
               IN  IF out = "crash"
                       THEN /\ ipc' = [ipc EXCEPT ![c] = "crashed"]
                            /\ UNCHANGED <<sconn, isend>>
                   ELSE IF out = "relay"
                       THEN /\ isend' = [isend EXCEPT ![c] =
                                           Entry(relay_message(client_id, msg), c, msg.r)]
                            /\ ipc' = [ipc EXCEPT ![c] = "i_check"]
                            /\ UNCHANGED sconn
                   ELSE IF out = "handle"
                       THEN IF msg.t = "Quit"
                            \* _handler_quit, line 323: the registered socket
                            THEN IF client_sockets[client_id] = 0
                                 THEN /\ ipc' = [ipc EXCEPT ![c] = "crashed"]
                                      /\ UNCHANGED <<sconn, isend>>
                                 ELSE /\ sconn' = [sconn EXCEPT
                                                     ![client_sockets[client_id]] = FALSE]
                                      /\ UNCHANGED <<ipc, isend>>
                            \* _handler_get_key and line 253
                            ELSE IF msg.t = "GetKey"
                            THEN /\ isend' = [isend EXCEPT ![c] =
                                       Entry(handler_get_key(msg.v[1], msg.v[2]), 0,
                                             client_id)]
                                 /\ ipc' = [ipc EXCEPT ![c] = "i_check"]
                                 /\ UNCHANGED sconn
                            \* _handler_default and lines 252-253
                            ELSE IF handler_default(msg.t, msg.v) = NoMsg
                            THEN UNCHANGED <<ipc, sconn, isend>>
                            ELSE /\ isend' = [isend EXCEPT ![c] =
                                       Entry(handler_default(msg.t, msg.v), 0, client_id)]
                                 /\ ipc' = [ipc EXCEPT ![c] = "i_check"]
                                 /\ UNCHANGED sconn
                   ELSE /\ isend' = [isend EXCEPT ![c] =
                                       Entry(error_msg(out), 0, client_id)]
                        /\ ipc' = [ipc EXCEPT ![c] = "i_check"]
                        /\ UNCHANGED sconn

\* Server._send, line 94
InSendCheck(c) ==
    /\ ipc[c] = "i_check"
    /\ ipc' = [ipc EXCEPT ![c] = IF client_outboxes[isend[c].to] = 0 THEN "i_create"
                                 ELSE "i_push"]
    /\ UNCHANGED <<confVars, connVars, aes, netVars, srvHsVars, cliHsVars, routeVars, dbVars, isend, opc,
                   oheld, wire, pushed, nframes>>

\* Server._send, lines 95-96
InSendCreate(c) ==
    /\ ipc[c] = "i_create"
    /\ queues' = Append(queues, <<>>)
    /\ client_outboxes' = [client_outboxes EXCEPT ![isend[c].to] = Len(queues) + 1]
    /\ ipc' = [ipc EXCEPT ![c] = "i_push"]
    /\ UNCHANGED <<confVars, connVars, aes, netVars, srvHsVars, cliHsVars, client_sockets, dbVars, isend,
                   opc, oheld, wire, pushed, nframes>>

\* Server._send, line 97
InSendPush(c) ==
    /\ ipc[c] = "i_push"
    /\ LET e == [isend[c] EXCEPT !.off = ~Online(isend[c].to)]
       IN  /\ queues' = [queues EXCEPT ![client_outboxes[e.to]] = Append(@, e)]
           /\ pushed' = pushed \cup {e}
    /\ isend' = [isend EXCEPT ![c] = NoEntry]
    /\ ipc' = [ipc EXCEPT ![c] = "i_loop"]
    /\ UNCHANGED <<confVars, connVars, aes, netVars, srvHsVars, cliHsVars, client_outboxes,
                   client_sockets, dbVars, opc, oheld, wire, nframes>>

\* lines 262-267: close, user_logout, and the registry's pop, which raises
\* KeyError when the id has no entry.  The frames still queued on the socket
\* go with it.
InExit(c) ==
    /\ ipc[c] = "i_exit"
    /\ sconn' = [sconn EXCEPT ![c] = FALSE]
    /\ c2s' = [c2s EXCEPT ![c] = <<>>]
    /\ dbLogged' = [dbLogged EXCEPT ![shs[c].c_id] = FALSE]
    /\ client_sockets' = [client_sockets EXCEPT ![shs[c].c_id] = 0]
    /\ ipc' = [ipc EXCEPT ![c] = IF client_sockets[shs[c].c_id] = 0 THEN "crashed"
                                 ELSE "done"]
    /\ UNCHANGED <<confVars, connVars, aes, s2c, cconn, srvHsVars, cliHsVars, client_outboxes,
                   queues, dbKey, isend, opc, oheld, wire, pushed, nframes>>

\* ------------------------------------------------ Server._out_thread
\* line 280
OutWhile(c) ==
    /\ opc[c] = "o_loop"
    /\ opc' = [opc EXCEPT ![c] = IF sconn[c] THEN "o_if" ELSE "done"]
    /\ UNCHANGED <<confVars, connVars, aes, netVars, srvHsVars, cliHsVars, routeVars, dbVars, ipc, isend,
                   oheld, wire, pushed, nframes>>

\* line 281
OutIf(c) ==
    /\ opc[c] = "o_if"
    /\ opc' = [opc EXCEPT ![c] = IF queues[shs[c].outbox] # <<>> THEN "o_pop"
                                 ELSE "o_loop"]
    /\ UNCHANGED <<confVars, connVars, aes, netVars, srvHsVars, cliHsVars, routeVars, dbVars, ipc, isend,
                   oheld, wire, pushed, nframes>>

\* line 282: Queue.pop waits for an item
OutPop(c) ==
    /\ opc[c] = "o_pop"
    /\ queues[shs[c].outbox] # <<>>
    /\ oheld' = [oheld EXCEPT ![c] = Head(queues[shs[c].outbox])]
    /\ queues' = [queues EXCEPT ![shs[c].outbox] = Tail(@)]
    /\ opc' = [opc EXCEPT ![c] = "o_send"]
    /\ UNCHANGED <<confVars, connVars, aes, netVars, srvHsVars, cliHsVars, client_outboxes,
                   client_sockets, dbVars, ipc, isend, wire, pushed, nframes>>

\* lines 284-286: the frame the out-worker builds from the popped message
out_frame(popped, encryption_key, aes_iv) ==
    <<hex(aes_iv), encrypt_msg(popped, encryption_key, aes_iv)>>

\* lines 283-289 with the message put back into the outbox when the send
\* raises SocketException
OutSend_requeue(c) ==
    /\ opc[c] = "o_send"
    /\ \E iv \in 1..MaxIv :
       wire' = IF sconn[c]
               THEN Append(wire, [c |-> c, e |-> oheld[c], rcv |-> cconn[c],
                                  f |-> out_frame(oheld[c].m, shs[c].key, iv)])
               ELSE wire
    /\ queues' = IF sconn[c] THEN queues
                 ELSE [queues EXCEPT ![shs[c].outbox] = Append(@, oheld[c])]
    /\ oheld' = [oheld EXCEPT ![c] = NoEntry]
    /\ opc' = [opc EXCEPT ![c] = "o_loop"]
    /\ UNCHANGED <<confVars, connVars, aes, netVars, srvHsVars, cliHsVars, client_outboxes,
                   client_sockets, dbVars, ipc, isend, pushed, nframes>>

\* lines 283-289: the frame is written to the socket, or the send raises
\* SocketException and the loop goes on without the message
OutSend(c) ==
    /\ opc[c] = "o_send"
    /\ \E iv \in 1..MaxIv :
       wire' = IF sconn[c]
               THEN Append(wire, [c |-> c, e |-> oheld[c], rcv |-> cconn[c],
                                  f |-> out_frame(oheld[c].m, shs[c].key, iv)])
               ELSE wire
    /\ oheld' = [oheld EXCEPT ![c] = NoEntry]
    /\ opc' = [opc EXCEPT ![c] = "o_loop"]
    /\ UNCHANGED <<confVars, connVars, aes, netVars, srvHsVars, cliHsVars, routeVars, dbVars, ipc, isend,
                   pushed, nframes>>

\* ------------------------------------------------- the connected client
MaxFrames == 2       \* frames the clients write after their handshakes

\* What the application hands to ServerConnection.send: relayed messages
\* (the payload numbers the frame), messages to the server, unparseable bytes.
ClientMessages ==
    {Msg(r, "NewMessage", <<nframes + 1>>) : r \in Ids}
    \cup {Msg(ServerId, "Quit", <<>>), BadMsg}

\* ServerConnection.send and _out_thread (lines 218-227, 193-203): the
\* message is queued, popped, encrypted under the session key and written
\* (to a socket whose in-worker on the server has not ended: what is written
\* later reaches nobody).
ClientWrite(c, msg) ==
    /\ cpc[c] = "connected" /\ cconn[c]
    /\ ipc[c] \notin {"done", "crashed"}
    /\ nframes < MaxFrames
    /\ \E iv \in 1..MaxIv :
         c2s' = [c2s EXCEPT ![c] = Append(@, <<FromIndex2(hex(iv)), encrypt_msg(msg, chs[c].key, iv)>>)]
    /\ nframes' = nframes + 1
    /\ UNCHANGED <<confVars, connVars, aes, s2c, sconn, cconn, srvHsVars, cliHsVars, routeVars, dbVars,
                   ipc, isend, opc, oheld, wire, pushed>>

ClientWriteAny(c) == \E msg \in ClientMessages : ClientWrite(c, msg)

\* What a client may write to the socket itself once connected (the test
\* invalidciphertext.py does it with random bytes): frames without separator,
\* with a bad IV, with a ciphertext that is not hex, does not decrypt or makes
\* decrypt_cbc fail otherwise, unparseable plaintext, messages to the server
\* and messages to relay.
RawFrames(c) ==
    LET key == chs[c].key
        quit == encrypt_msg(Msg(ServerId, "Quit", <<>>), key, 1)
    IN  {<<BinF>>, <<JunkF>>, <<BinF, quit>>,
         <<JunkF, quit>>,
         <<HexF(1), JunkF>>, <<HexF(1), quit, JunkF>>,
         <<HexF(1), encrypt_msg(Msg(ServerId, "Quit", <<>>), (key % 16) + 1, 1)>>,
         <<HexF(1), CtF("short", 0, key, 1, NoMsg)>>,
         <<HexF(1), CtF("badpad", 0, key, 1, NoMsg)>>,
         <<HexF(1), CtF("maconly", 0, key, 1, NoMsg)>>,
         <<HexF(IvLimit), encrypt_msg(Msg(ServerId, "Quit", <<>>), key, IvLimit)>>,
         <<HexF(1), encrypt_msg(BadMsg, key, 1)>>,
         <<HexF(1), encrypt_msg(Msg(ServerId, "Typo", <<>>), key, 1)>>}
        \cup {<<HexF(1), encrypt_msg(Msg(ServerId, "GetKey", <<nframes + 1, i>>), key, 1)>> :
                 i \in Ids}
        \cup {<<HexF(1), encrypt_msg(Msg(ServerId, t, IF t = "NoSuchKeyRequest"
                                                      THEN <<nframes + 1>> ELSE <<>>),
                                      key, 1)>> : t \in DefaultTypes}
        \cup {<<HexF(1), encrypt_msg(Msg(i, "NewMessage", <<nframes + 1>>), key, 1)>> :
                 i \in Ids}

ClientWriteRaw(c) ==
    /\ cpc[c] = "connected" /\ cconn[c]
    /\ ipc[c] \notin {"done", "crashed"}
    /\ nframes < MaxFrames
    /\ \E pkt \in RawFrames(c) : c2s' = [c2s EXCEPT ![c] = Append(@, pkt)]
    /\ nframes' = nframes + 1
    /\ UNCHANGED <<confVars, connVars, aes, s2c, sconn, cconn, srvHsVars, cliHsVars, routeVars, dbVars,
                   ipc, isend, opc, oheld, wire, pushed>>

\* ServerConnection.close (lines 205-216), the out-queue being empty (followed
\* until the server's in-worker for the socket has run its exit)
ClientClose(c) ==
    /\ cpc[c] = "connected" /\ cconn[c]
    /\ ipc[c] # "done"
    /\ cconn' = [cconn EXCEPT ![c] = FALSE]
    /\ UNCHANGED <<confVars, connVars, aes, c2s, s2c, sconn, srvHsVars, cliHsVars, routeVars, dbVars,
                   workerVars>>

\* ------------------------------ ServerConnection: send, _out_thread, close
\* The steps of send(), of the out-thread and of close() one by one, for the
\* claims about their interleaving.  connect() starts the out-thread when
\* the handshake has returned (lines 155-158): its steps wait for that.
restVars == <<confVars, s2c, sconn, srvHsVars, cliHsVars, routeVars, dbVars, workerVars,
              aes, inVars>>

\* what the application sends here: messages the server answers nothing to
SendMessages == {Msg(ServerId, "Quit", <<>>), Msg(ServerId, "InvalidIV", <<>>)}

\* send(), line 224: the socket is connected (otherwise NetworkError is
\* raised and nothing changes)
SendCheck(c, th) ==
    /\ cpc[c] = "connected" /\ caller[c][th] = "idle"
    /\ accepted[c] < MaxFrames
    /\ cconn[c]
    /\ caller' = [caller EXCEPT ![c][th] = "s_push"]
    /\ UNCHANGED <<restVars, c2s, cconn, out_queue, send_lock, tout, message, accepted,
                   preclose, written>>

\* send(), line 225
SendPush(c, th) ==
    /\ caller[c][th] = "s_push"
    /\ \E m \in SendMessages :
         out_queue' = [out_queue EXCEPT ![c] = Append(@, Out(accepted[c] + 1, m))]
    /\ accepted' = [accepted EXCEPT ![c] = @ + 1]
    /\ caller' = [caller EXCEPT ![c][th] = "idle"]
    /\ UNCHANGED <<restVars, c2s, cconn, send_lock, tout, message, preclose, written>>

\* _out_thread, line 193
TOutWhile(c) ==
    /\ cpc[c] = "connected" /\ tout[c] = "t_while"
    /\ tout' = [tout EXCEPT ![c] = IF cconn[c] THEN "t_if" ELSE "t_done"]
    /\ UNCHANGED <<restVars, c2s, cconn, out_queue, send_lock, message, caller, accepted,
                   preclose, written>>

\* line 194
TOutIf(c) ==
    /\ tout[c] = "t_if"
    /\ tout' = [tout EXCEPT ![c] = IF out_queue[c] # <<>> THEN "t_lock" ELSE "t_while"]
    /\ UNCHANGED <<restVars, c2s, cconn, out_queue, send_lock, message, caller, accepted,
                   preclose, written>>

\* _out_thread entering its block without taking the lock
TOutLock_unlocked(c) ==
    /\ tout[c] = "t_lock"
    /\ tout' = [tout EXCEPT ![c] = "t_pop"]
    /\ UNCHANGED <<restVars, c2s, cconn, out_queue, send_lock, message, caller, accepted,
                   preclose, written>>

\* line 195: with self._send_lock
TOutLock(c) ==
    /\ tout[c] = "t_lock"
    /\ send_lock[c] = ""
    /\ send_lock' = [send_lock EXCEPT ![c] = "t_out"]
    /\ tout' = [tout EXCEPT ![c] = "t_pop"]
    /\ UNCHANGED <<restVars, c2s, cconn, out_queue, message, caller, accepted, preclose,
                   written>>

\* line 196: pop (blocks on an empty queue)
TOutPop(c) ==
    /\ tout[c] = "t_pop"
    /\ out_queue[c] # <<>>
    /\ message' = [message EXCEPT ![c] = Head(out_queue[c])]
    /\ out_queue' = [out_queue EXCEPT ![c] = Tail(@)]
    /\ tout' = [tout EXCEPT ![c] = "t_send"]
    /\ UNCHANGED <<restVars, c2s, cconn, send_lock, caller, accepted, preclose, written>>

\* lines 197-203: encrypt and send; SocketException on a socket that is not
\* connected: continue.  Either way the block is left and the lock released.
TOutSend(c) ==
    /\ tout[c] = "t_send"
    /\ IF cconn[c]
       THEN /\ \E iv \in 1..MaxIv :
                 c2s' = [c2s EXCEPT ![c] =
                           Append(@, <<FromIndex2(hex(iv)), encrypt_msg(message[c].m, chs[c].key, iv)>>)]
            /\ written' = [written EXCEPT ![c] = @ \cup {message[c].n}]
       ELSE UNCHANGED <<c2s, written>>
    /\ message' = [message EXCEPT ![c] = NoOut]
    /\ send_lock' = [send_lock EXCEPT ![c] = IF @ = "t_out" THEN "" ELSE @]
    /\ tout' = [tout EXCEPT ![c] = "t_while"]
    /\ UNCHANGED <<restVars, cconn, out_queue, caller, accepted, preclose>>

\* close(), line 207, called by the thread that sent
CloseCall(c) ==
    /\ cpc[c] = "connected" /\ caller[c]["app"] = "idle"
    /\ caller' = [caller EXCEPT ![c]["app"] = IF cconn[c] THEN "c_empty" ELSE "returned"]
    /\ preclose' = [preclose EXCEPT ![c] = accepted[c]]
    /\ UNCHANGED <<restVars, c2s, cconn, out_queue, send_lock, tout, message, accepted,
                   written>>

\* lines 209-210: loop until the out-queue is empty
CloseEmpty(c) ==
    /\ caller[c]["app"] = "c_empty"
    /\ out_queue[c] = <<>>
    /\ caller' = [caller EXCEPT ![c]["app"] = "c_lock"]
    /\ UNCHANGED <<restVars, c2s, cconn, out_queue, send_lock, tout, message, accepted,
                   preclose, written>>

\* line 211: with self._send_lock
CloseLock(c) ==
    /\ caller[c]["app"] = "c_lock"
    /\ send_lock[c] = ""
    /\ send_lock' = [send_lock EXCEPT ![c] = "close"]
    /\ caller' = [caller EXCEPT ![c]["app"] = "c_close"]
    /\ UNCHANGED <<restVars, c2s, cconn, out_queue, tout, message, accepted, preclose,
                   written>>

\* lines 213-215: close the socket, leave the block and the loop
CloseSocket(c) ==
    /\ caller[c]["app"] = "c_close"
    /\ cconn' = [cconn EXCEPT ![c] = FALSE]
    /\ send_lock' = [send_lock EXCEPT ![c] = ""]
    /\ caller' = [caller EXCEPT ![c]["app"] = "returned"]
    /\ UNCHANGED <<restVars, c2s, out_queue, tout, message, accepted, preclose, written>>

\* ------------------------------------------- the handshake specification
\* SpecHS: one Server._handshake against a ServerConnection or against a
\* client that writes the wire itself; the workers it starts are not run.
\* SpecCli: one ServerConnection against an arbitrary peer.
HsServer(c) ==
    \/ SrvAnnounce(c) \/ SrvIdentity(c) \/ SrvDh(c) \/ SrvConfirm(c)
    \/ SrvOutboxCheck(c) \/ SrvOutboxGet(c) \/ SrvOutboxNew(c) \/ SrvRegister(c)
    \/ SrvReaderEOF(c)

HsClient(c) ==
    \/ CliKey(c) \/ CliAuth(c) \/ CliChallenge(c) \/ CliFinal(c) \/ CliReaderEOF(c)

\* The directory is persistent: when the server starts it may hold, for an
\* id, a key that fingerprints to it.
InitHS ==
    \E db \in [Ids -> {NoKey} \cup {PubKey(n) : n \in ClientKeys}] :
        /\ \A i \in Ids : db[i] # NoKey => fingerprint(db[i], DefaultFpLength) = i
        /\ InitConns({1}) /\ aes = NoCall
        /\ dbKey = db

\* (no outbox exists when the one handshake reaches line 195: line 196 is
\* taken in SpecRoute)
NextHS ==
    \/ \E k \in {"honest", "raw"}, n \in ClientKeys : Connect(1, k, n, ServerFp)
    \/ SrvAnnounce(1) \/ SrvIdentity(1) \/ SrvDh(1) \/ SrvConfirm(1)
    \/ SrvOutboxCheck(1) \/ SrvOutboxNew(1) \/ SrvRegister(1)
    \/ SrvReaderEOF(1)
    \/ HsClient(1)
    \/ TamperIdentity(1)
    \/ RawSendAny(1)
    \/ RawClose(1)

SpecHS == InitHS /\ [][NextHS]_vars

\* SpecLive: one ServerConnection.connect against Server._handshake, both
\* run by their own thread, which the scheduler lets run whenever it can
\* take a step (a blocking recv is a step that waits for its packet).
SrvThread(c) ==
    \/ SrvAnnounce(c) \/ SrvIdentity(c) \/ SrvDh(c) \/ SrvConfirm(c)
    \/ SrvOutboxCheck(c) \/ SrvOutboxNew(c) \/ SrvRegister(c)
    \/ SrvReaderEOF(c)

NextLive ==
    \/ \E n \in ClientKeys, fp \in {ServerFp, fingerprint(PubKey(RogueN), ServerFpLength)} :
           Connect(1, "honest", n, fp)
    \/ SrvThread(1)
    \/ HsClient(1)

SpecLive ==
    InitHS /\ [][NextLive]_vars /\ WF_vars(SrvThread(1)) /\ WF_vars(HsClient(1))

InitCli == InitConns({1}) /\ aes = NoCall /\ dbKey = [i \in Ids |-> NoKey]

NextCli ==
    \/ \E fp \in {ServerFp, fingerprint(PubKey(RogueN), ServerFpLength)} :
           Connect(1, "rogue", 1, fp)
    \/ HsClient(1)
    \/ RogueSendAny(1)
    \/ RogueClose(1)

SpecCli == InitCli /\ [][NextCli]_vars

\* ------------------------------------------ ServerConnection._in_thread
\* lines 168-186 with every exception of decrypt_cbc caught at line 182
in_frame_check_catchall(pkt, key) ==
    IF Len(pkt) # 2 THEN "CiphertextMalformed"
    ELSE IF ~IsHexBytes(pkt[2]) THEN "CiphertextMalformed"
    ELSE IF ~IsHex(pkt[1]) THEN "InvalidIV"
    ELSE IF decrypt_cbc(pkt[2], key, pkt[1].a).st # "ok" THEN "MessageDecryptionFailure"
    ELSE "deliver"

\* lines 168-186: what a received frame leads to.  data.split(b':') must
\* give two parts and bytes.fromhex accept the second (ValueError:
\* CiphertextMalformed); int(iv, 16) must accept the first (ValueError:
\* InvalidIV); of what decrypt_cbc raises only CryptographyException is
\* caught (MessageDecryptionFailure).
in_frame_check(pkt, key) ==
    IF Len(pkt) # 2 THEN "CiphertextMalformed"
    ELSE IF ~IsHexBytes(pkt[2]) THEN "CiphertextMalformed"
    ELSE IF ~IsHex(pkt[1]) THEN "InvalidIV"
    ELSE IF decrypt_cbc(pkt[2], key, pkt[1].a).st = "fail" THEN "MessageDecryptionFailure"
    ELSE IF decrypt_cbc(pkt[2], key, pkt[1].a).st = "error" THEN "crash"
    ELSE "deliver"

\* lines 162-187: one turn of the loop up to the push or the call of send.
\* With the socket disconnected the loop ends; with a frame queued it is
\* received and checked; an exception that is not caught ends the thread.
CliInLoop(c) ==
    /\ cpc[c] = "connected" /\ tin[c].pc = "t_loop"
    /\ UNCHANGED <<confVars, aes, c2s, sconn, cconn, srvHsVars, cliHsVars, routeVars, dbVars,
                   workerVars, out_queue, send_lock, tout, message, caller, accepted,
                   preclose, written>>
    /\ IF ~cconn[c]
       THEN /\ tin' = [tin EXCEPT ![c].pc = "t_done"]
            /\ UNCHANGED <<s2c, in_queue>>
       ELSE /\ s2c[c] # <<>>
            /\ s2c' = [s2c EXCEPT ![c] = Tail(@)]
            /\ LET pkt == Head(s2c[c])
                   out == in_frame_check(pkt, chs[c].key)
               IN  IF out = "deliver"
                       THEN /\ in_queue' = [in_queue EXCEPT ![c] =
                                   Append(@, decrypt_cbc(pkt[2], chs[c].key, pkt[1].a).m)]
                            /\ tin' = [tin EXCEPT ![c].n = @ + 1]
                   ELSE IF out = "crash"
                       THEN /\ tin' = [tin EXCEPT ![c].pc = "t_crashed", ![c].n = @ + 1]
                            /\ UNCHANGED in_queue
                   ELSE /\ tin' = [tin EXCEPT ![c] = [pc |-> "t_report", rep |-> out,
                                                      n |-> @.n + 1]]
                        /\ UNCHANGED in_queue

\* lines 172, 178, 184 with send (lines 224-227): the report is queued, or
\* send raises NetworkError on a socket no longer connected, which nothing
\* in the thread catches
CliInReport(c) ==
    /\ tin[c].pc = "t_report"
    /\ IF cconn[c]
       THEN /\ out_queue' = [out_queue EXCEPT ![c] =
                   Append(@, Out(accepted[c] + 1, error_msg(tin[c].rep)))]
            /\ accepted' = [accepted EXCEPT ![c] = @ + 1]
            /\ tin' = [tin EXCEPT ![c].pc = "t_loop", ![c].rep = ""]
       ELSE /\ tin' = [tin EXCEPT ![c].pc = "t_crashed"]
            /\ UNCHANGED <<out_queue, accepted>>
    /\ UNCHANGED <<confVars, aes, netVars, srvHsVars, cliHsVars, routeVars, dbVars, workerVars,
                   send_lock, tout, message, caller, preclose, written, in_queue>>

\* recv(), lines 236-239: the oldest delivered plaintext is handed to the
\* application (on a socket not connected NetworkError is raised and
\* nothing changes)
CliRecv(c) ==
    /\ cpc[c] = "connected" /\ cconn[c]
    /\ in_queue[c] # <<>>
    /\ in_queue' = [in_queue EXCEPT ![c] = Tail(@)]
    /\ UNCHANGED <<confVars, aes, netVars, srvHsVars, cliHsVars, routeVars, dbVars, workerVars,
                   out_queue, send_lock, tout, message, caller, accepted, preclose, written,
                   tin>>

\* What the peer of a connected ServerConnection may write: the server's
\* own frames (Server._out_thread's, with its "0x"), frames in pieces that
\* do not split or are not hexadecimal, ciphertexts that are too short,
\* made under another key, wrongly padded or empty, and an IV that does not
\* fit 16 bytes.
PeerFrames(c) ==
    LET key == chs[c].key
        m == Msg(ClientId(ckey[c]), "NewMessage", <<tin[c].n + 1>>)
    IN  {out_frame(m, key, 1),
         <<HexF(1), encrypt_msg(m, key, 1)>>,
         <<JunkF>>, <<HexF(1), JunkF>>, <<HexF(1), encrypt_msg(m, key, 1), JunkF>>,
         <<JunkF, encrypt_msg(m, key, 1)>>, <<BinF, encrypt_msg(m, key, 1)>>,
         <<HexF(1), BinF>>,
         <<HexF(1), encrypt_msg(m, (key % 16) + 1, 1)>>,
         <<HexF(1), CtF("short", 0, key, 1, NoMsg)>>,
         <<HexF(1), CtF("badpad", 0, key, 1, NoMsg)>>,
         <<HexF(1), CtF("maconly", 0, key, 1, NoMsg)>>,
         <<HexF(IvLimit), encrypt_msg(m, key, IvLimit)>>}

PeerFrame(c) ==
    /\ kind[c] = "rogue" /\ cpc[c] = "connected" /\ sconn[c]
    /\ Len(s2c[c]) + tin[c].n < MaxFrames
    /\ \E pkt \in PeerFrames(c) : s2c' = [s2c EXCEPT ![c] = Append(@, pkt)]
    /\ UNCHANGED <<confVars, connVars, aes, c2s, sconn, cconn, srvHsVars, cliHsVars, routeVars,
                   dbVars, workerVars>>

\* the peer closes its side of an established connection
PeerClose(c) ==
    /\ kind[c] = "rogue" /\ cpc[c] = "connected" /\ sconn[c]
    /\ sconn' = [sconn EXCEPT ![c] = FALSE]
    /\ UNCHANGED <<confVars, connVars, aes, c2s, s2c, cconn, srvHsVars, cliHsVars, routeVars,
                   dbVars, workerVars>>

\* SpecIn: one ServerConnection against an arbitrary peer, through the
\* handshake and on: the peer writes frames and may close, the in-thread
\* takes them, the application receives.
NextIn ==
    \/ Connect(1, "rogue", 1, ServerFp)
    \/ HsClient(1)
    \/ RogueSendAny(1)
    \/ PeerFrame(1)
    \/ PeerClose(1)
    \/ CliInLoop(1)
    \/ CliInReport(1)
    \/ CliRecv(1)

SpecIn == InitCli /\ [][NextIn]_vars

\* ---------------------------------------------- the routing specification
\* SpecRoute: ServerConnection clients connect, write frames and close; the
\* server's handshake threads and workers run interleaved.  The handshake's
\* random draws are fixed here (SpecHS explores them).
MaxSessions == 2     \* connections accepted in the routing specification
RouteKeys == {1, 3}

FixedDraws(c) ==
    /\ shs'[c].priv \in {0, 1} /\ shs'[c].rnd \in {0, 1}
    /\ chs'[c].priv \in {0, 1}

Workers(c) ==
    \/ InLoop(c) \/ InSendCheck(c) \/ InSendCreate(c) \/ InSendPush(c) \/ InExit(c)
    \/ OutWhile(c) \/ OutIf(c) \/ OutPop(c) \/ OutSend(c)

InitRoute == InitConns(1..MaxSessions) /\ aes = NoCall /\ dbKey = [i \in Ids |-> NoKey]

NextRoute ==
    \E c \in 1..MaxSessions :
        \/ \E n \in (IF c = 1 THEN {1} ELSE RouteKeys) : Connect(c, "honest", n, ServerFp)
        \/ HsServer(c) /\ FixedDraws(c)
        \/ HsClient(c) /\ FixedDraws(c)
        \/ ClientWriteAny(c)
        \/ ClientClose(c)
        \/ Workers(c)

SpecRoute == InitRoute /\ [][NextRoute]_vars

\* SpecShare: two sessions of one client (key 1), the first of which writes
\* frames; either may close.  The server's threads are scheduled fairly: a
\* worker or a handshake thread that can take a step takes one in the end
\* (a blocking recv or pop is a step that waits).  Nothing is assumed of the
\* clients: they may stop writing at any time.
NextShare ==
    \E c \in 1..MaxSessions :
        \/ Connect(c, "honest", 1, ServerFp)
        \/ HsServer(c) /\ FixedDraws(c)
        \/ HsClient(c) /\ FixedDraws(c)
        \/ c = 1 /\ ClientWriteAny(c)
        \/ ClientClose(c)
        \/ Workers(c)

SpecShare ==
    /\ InitRoute /\ [][NextShare]_vars
    /\ \A c \in 1..MaxSessions : WF_vars(Workers(c))
    /\ \A c \in 1..MaxSessions : WF_vars(HsServer(c) /\ FixedDraws(c))

\* ----------------------------------------------- the frames specification
\* SpecFrames: a client that writes frames to its socket itself after the
\* handshake (key 1), next to a ServerConnection client that connects,
\* receives and closes (key 3).
FrameKey(c) == IF c = 1 THEN 1 ELSE 3

NextFrames ==
    \E c \in 1..MaxSessions :
        \/ Connect(c, "honest", FrameKey(c), ServerFp)
        \/ HsServer(c) /\ FixedDraws(c)
        \/ HsClient(c) /\ FixedDraws(c)
        \/ c = 1 /\ ClientWriteRaw(c)
        \/ ClientClose(c)
        \/ Workers(c)

SpecFrames == InitRoute /\ [][NextFrames]_vars

\* --------------------------------------- the three-session specification
\* SpecTriple: a client (key 3) that writes frames, and two sessions of one
\* other client (key 1) that connect after it and only receive.
TripleConns == 1..(MaxSessions + 1)
TripleKey(c) == IF c = 1 THEN 3 ELSE 1

InitTriple == InitConns(TripleConns) /\ aes = NoCall /\ dbKey = [i \in Ids |-> NoKey]

NextTriple ==
    \E c \in TripleConns :
        \/ Connect(c, "honest", TripleKey(c), ServerFp)
        \/ HsServer(c) /\ FixedDraws(c)
        \/ HsClient(c) /\ FixedDraws(c)
        \/ c = 1 /\ ClientWriteAny(c)
        \/ Workers(c)

SpecTriple == InitTriple /\ [][NextTriple]_vars

\* ------------------------------------------------ the close specification
\* SpecClose: one ServerConnection whose application sends from two threads
\* and closes, step by step, against the server's handshake and in-worker
\* (a Quit makes the server close its side while the client still sends).
CloseConns == {1}

InitClose == InitConns(CloseConns) /\ aes = NoCall /\ dbKey = [i \in Ids |-> NoKey]

NextClose ==
    \E c \in CloseConns :
        \/ Connect(c, "honest", 1, ServerFp)
        \/ HsServer(c) /\ FixedDraws(c)
        \/ HsClient(c) /\ FixedDraws(c)
        \/ \E th \in Threads : SendCheck(c, th)
        \/ \E th \in Threads : SendPush(c, th)
        \/ TOutWhile(c) \/ TOutIf(c) \/ TOutLock(c) \/ TOutPop(c) \/ TOutSend(c)
        \/ CloseCall(c) \/ CloseEmpty(c) \/ CloseLock(c) \/ CloseSocket(c)
        \/ InLoop(c) \/ InExit(c)
        \/ SrvReaderEOF(c) \/ CliReaderEOF(c)

SpecClose == InitClose /\ [][NextClose]_vars

\* SpecCloseLive: SpecClose with every thread scheduled fairly: the
\* out-worker, the thread inside close(), the server's handshake thread and
\* in-worker take a step in the end whenever they can (a blocking pop, a
\* lock that is held, the wait for the out-queue to be empty are steps that
\* wait).  Nothing is assumed of the application's sends or of the network.
TOutThread(c) == TOutWhile(c) \/ TOutIf(c) \/ TOutLock(c) \/ TOutPop(c) \/ TOutSend(c)
CloseThread(c) == CloseEmpty(c) \/ CloseLock(c) \/ CloseSocket(c)
SpecCloseLive ==
    /\ InitClose /\ [][NextClose]_vars
    /\ \A c \in CloseConns :
         /\ WF_vars(TOutThread(c)) /\ WF_vars(CloseThread(c))
         /\ WF_vars(HsServer(c) /\ FixedDraws(c)) /\ WF_vars(InLoop(c) \/ InExit(c))

\* ------------------------------------------------ the cipher specification
\* SpecAes: calls of encrypt_cbc on a plaintext, a key and an IV, with the
\* random draws of pad, followed by decrypt_cbc of the result with the same
\* key and IV.
MaxPlain == 2        \* plaintexts of 0..MaxPlain bytes
MaxPad == 6          \* random padding of 0..MaxPad bytes on each side, or BigPad
BigPad == 256
PlainBytes == {0, 1, 16}
PadFill == {1, 16}
AesKeys == {1, 200}
\* pad's two draws (line 592, 594: each below max_pad_bytes // 2)
PadDraws == ((0..MaxPad) \X (0..MaxPad))
                \cup {<<BigPad, 0>>, <<0, BigPad>>}
Plaintexts == UNION {[1..n -> PlainBytes] : n \in 0..MaxPlain}

InitAes ==
    /\ InitConns({1}) /\ dbKey = [i \in Ids |-> NoKey]
    /\ \E data \in Plaintexts, key \in AesKeys, iv \in 0..MaxIv :
         aes = [NoCall EXCEPT !.pc = "called", !.data = data, !.key = key, !.iv = iv]

allButAes == <<confVars, connVars, netVars, srvHsVars, cliHsVars, routeVars, dbVars,
               workerVars>>

\* aes256.encrypt_cbc(data, key, iv)
AesEncrypt ==
    /\ aes.pc = "called"
    /\ \E draw \in PadDraws, b \in PadFill :
         aes' = [aes EXCEPT !.pc = "encrypted",
                            !.ct = encrypt_cbc_bytes(aes.data, aes.key, aes.iv,
                                                     draw[1], draw[2], b, b)]
    /\ UNCHANGED allButAes

\* aes256.decrypt_cbc(ciphertext, key, iv)
AesDecrypt ==
    /\ aes.pc = "encrypted"
    /\ aes' = [aes EXCEPT !.pc = "decrypted",
                          !.out = decrypt_cbc_bytes(aes.ct, aes.key, aes.iv)]
    /\ UNCHANGED allButAes

NextAes == AesEncrypt \/ AesDecrypt

SpecAes == InitAes /\ [][NextAes]_vars

\* SpecDec: decrypt_cbc called on what a peer that knows the key can put
\* together: the chained blocks of a payload of its choice (padded as pad
\* and add_pkcs7 do it, or not), with their MAC, then cut or altered on the
\* way, and with an IV of its choice.
\* the payloads: what encrypt_cbc chains, nothing at all, blocks with a bad
\* PKCS#7 ending, and padded data whose header declares too much
CraftedPayloads ==
    {add_pkcs7(pad(d, dr[1], dr[2], 1, 1)) : d \in Plaintexts, dr \in (0..1) \X (0..1)}
        \cup {<<>>, Fill(BlockLen, 0), Fill(BlockLen, BlockLen + 1),
              Fill(BlockLen - 1, 1) \o <<2>>}
        \cup {add_pkcs7(to_bytes(h[1], 2) \o to_bytes(h[2], 2) \o body) :
                 h \in {<<6, 0>>, <<0, 6>>, <<3, 3>>, <<9, 0>>, <<200, 0>>},
                 body \in {<<>>, Fill(4, 1)}}
\* lines 647-661 on a payload that is already whole blocks
Craft(payload, key, iv) ==
    LET ciphertext == Flatten(cbc_encrypt_blocks(split_blocks(payload), key,
                                                 to_bytes(iv, BlockLen)))
    IN  ciphertext \o hmac_calculate(ciphertext, iv, key)
Tampers == {"none", "macflip", "cut", "unaligned"}
Tamper(ct, how) ==
    IF how = "macflip" THEN [ct EXCEPT ![Len(ct)] = (@ + 1) % 256]
    ELSE IF how = "cut" THEN SubSeq(ct, 1, MacLen - 1)
    ELSE IF how = "unaligned" THEN Tail(ct)
    ELSE ct

InitDec ==
    /\ InitConns({1}) /\ dbKey = [i \in Ids |-> NoKey]
    /\ \E payload \in CraftedPayloads, key \in AesKeys, iv \in 0..MaxIv, how \in Tampers :
         \E div \in {iv, IvLimit} :
            aes = [NoCall EXCEPT !.pc = "encrypted", !.data = payload, !.key = key,
                                 !.iv = div, !.ct = Tamper(Craft(payload, key, iv), how)]

NextDec == AesDecrypt

SpecDec == InitDec /\ [][NextDec]_vars

\* ================================================================ claims
\* the id a key pair fingerprints to, computed from the digest
OwnId(n) == <<DefaultFpLength, sha256_hash_hex(PubKey(n)) \div 4>>

\* the messages in the outbox an id is mapped to (none: the empty sequence)
BoxMsgs(co, qs, i) ==
    IF co[i] = 0 THEN <<>> ELSE [j \in 1..Len(qs[co[i]]) |-> qs[co[i]][j].m]

\* C1: every entry a relay pushed to an outbox has as first field the id
\* that the connection it came in on authenticated as (the fingerprint of
\* the key pair that connection holds), whatever recipient the client wrote;
\* the entries the server made itself have first field "0".
C1_AuthenticatedEnvelope ==
    \A e \in (pushed \cup {isend[c] : c \in Conns}) \ {NoEntry} :
        IF e.from = 0 THEN e.m.r = ServerId
        ELSE e.m.r = OwnId(ckey[e.from]) /\ e.m.r = shs[e.from].c_id

\* C1's case: a message relayed to another id than the sender's is queued
C1_Witness ==
    \E e \in pushed : e.from # 0 /\ e.to # OwnId(ckey[e.from])

\* C2: a connection whose socket is registered or whose workers were started
\* completed a handshake in which the announced key fingerprinted to the
\* claimed id, the DH value verified under that key, the login reported no
\* collision and the challenge response was the random data; after any other
\* outcome nothing is registered and no worker is started for it.
C2_WorkersOnlyAfterChecks ==
    \A c \in Conns :
        (ipc[c] # "none" \/ opc[c] # "none" \/ \E i \in Ids : client_sockets[i] = c)
            => /\ spc[c] = "done"
               /\ shs[c].fpOk /\ shs[c].sigOk /\ shs[c].loginOk /\ shs[c].respOk

\* C2's case: a client that wrote the wire itself got through the four checks
C2_Witness ==
    \E c \in Conns :
        /\ kind[c] = "raw" /\ spc[c] = "done" /\ ipc[c] = "i_loop" /\ opc[c] = "o_loop"
        /\ client_sockets[shs[c].c_id] = c

\* C3: connect returns with its workers started only after the server's key
\* matched the configured fingerprint, its DH value verified under that key,
\* the challenge decrypted under the derived key and the server answered OK;
\* whenever connect ends otherwise the socket is closed and an exception
\* reached the caller; and the identity packet is sent only after the key
\* received matched the fingerprint.
C3_ConnectAllOrNothing ==
    \A c \in Conns :
        /\ cpc[c] = "connected"
              => chs[c].fpOk /\ chs[c].sigOk /\ chs[c].decOk /\ chs[c].gotOk
        /\ cpc[c] = "raised" => ~cconn[c] /\ chs[c].exc # ""
        /\ (csent[c] # <<>> /\ csent[c][1] = "identity") => chs[c].fpOk

\* C3 without the closing of the socket: what of it the code does keep
C3_ChecksBeforeWorkers ==
    \A c \in Conns :
        /\ cpc[c] = "connected"
              => chs[c].fpOk /\ chs[c].sigOk /\ chs[c].decOk /\ chs[c].gotOk
        /\ cpc[c] = "raised" => chs[c].exc # ""
        /\ (csent[c] # <<>> /\ csent[c][1] = "identity") => chs[c].fpOk

\* C4: on a connection between a ServerConnection and the server, the key the
\* server derived and the key the client derived are equal as soon as both
\* are derived, hence when both handshakes have completed.
C4_SessionKeysEqual ==
    \A c \in Conns :
        (kind[c] = "honest" /\ shs[c].key # 0 /\ chs[c].key # 0)
            => shs[c].key = chs[c].key

\* C4's case: both handshakes completed, with private values other than 1
C4_Witness ==
    \E c \in Conns :
        /\ kind[c] = "honest" /\ spc[c] = "done" /\ cpc[c] = "connected"
        /\ shs[c].key = sha256_hash(calculate_shared_key(2, generate_public_key(2,
                                        group14_2048), group14_2048))

\* C5: a well-formed identity packet whose id is not the fingerprint of the
\* key it announces makes the server send PubKeyIdMismatch as its second and
\* last packet and close, with the routing state, the directory and the
\* workers untouched; a ServerConnection that receives PubKeyIdMismatch in
\* place of the DH value closes, sends nothing and raises
\* ServerConnectionAbort.
C5_IdMismatch ==
    [][\A c \in Conns :
         /\ ( /\ spc[c] = "s_identity" /\ spc'[c] # "s_identity"
              /\ sconn[c] /\ c2s[c] # <<>>
              /\ Len(Head(c2s[c])) = 3
              /\ Head(c2s[c])[2].k = "hex" /\ Head(c2s[c])[3].k = "hex"
              /\ <<Head(c2s[c])[1].k, Head(c2s[c])[1].a, Head(c2s[c])[1].b>> #
                   <<"id", DefaultFpLength,
                     sha256_hash_hex(<<Head(c2s[c])[2].a, Head(c2s[c])[3].a>>) \div 4>> )
            => /\ spc'[c] = "failed" /\ ~sconn'[c]
               /\ ssent'[c] = <<"pubkey", "PubKeyIdMismatch">>
               /\ kind[c] = "honest" => s2c'[c] = Append(s2c[c], Tok("PubKeyIdMismatch"))
               /\ UNCHANGED <<routeVars, dbVars, ipc, opc>>
         /\ ( /\ cpc[c] = "c_auth" /\ cpc'[c] # "c_auth"
              /\ s2c[c] # <<>> /\ Head(s2c[c]) = Tok("PubKeyIdMismatch") )
            => /\ cpc'[c] = "raised" /\ chs'[c].exc = "ServerConnectionAbort"
               /\ ~cconn'[c] /\ csent'[c] = csent[c] /\ c2s'[c] = c2s[c]
      ]_vars

\* C5's case: the server rejected an identity packet with PubKeyIdMismatch and
\* the ServerConnection on the other side raised ServerConnectionAbort
C5_Witness ==
    \E c \in Conns :
        /\ kind[c] = "honest" /\ spc[c] = "failed"
        /\ ssent[c] = <<"pubkey", "PubKeyIdMismatch">>
        /\ cpc[c] = "raised" /\ chs[c].exc = "ServerConnectionAbort" /\ ~cconn[c]

\* C6: no step of a handshake before its OK changes the outbox map, the
\* outboxes, the registry or the workers; and when the client's DH packet
\* verifies and the directory holds another key for the id, the server sends
\* IDCollision, closes and the handshake is over, the directory unchanged.
C6_CollisionLeavesRouting ==
    [][\A c \in Conns :
         /\ (spc[c] \in {"s_start", "s_identity", "s_dh", "s_confirm"}
             /\ spc'[c] \notin {spc[c], "s_outbox"})
            => /\ UNCHANGED routeVars
               /\ ipc'[c] = "none" /\ opc'[c] = "none"
         /\ ( /\ spc[c] = "s_dh" /\ spc'[c] # "s_dh"
              /\ sconn[c] /\ c2s[c] # <<>>
              /\ Len(Head(c2s[c])) = 2 /\ Head(c2s[c])[1].k = "hex"
              /\ Head(c2s[c])[2] = sign(Head(c2s[c])[1], shs[c].pub[2])
              /\ dbKey[shs[c].c_id] \notin {NoKey, shs[c].pub} )
            => /\ spc'[c] = "failed" /\ ~sconn'[c]
               /\ ssent'[c] = <<"pubkey", "dh", "IDCollision">>
               /\ kind[c] = "honest" => s2c'[c] = Append(s2c[c], Tok("IDCollision"))
               /\ UNCHANGED <<routeVars, dbVars, ipc, opc>>
      ]_vars

\* C6's case: a ServerConnection whose key fingerprints to an id that the
\* directory binds to another key was answered IDCollision; no outbox, no
\* registry entry, no worker
C6_Witness ==
    \E c \in Conns :
        /\ kind[c] = "honest" /\ dbKey[OwnId(ckey[c])] \notin {NoKey, PubKey(ckey[c])}
        /\ spc[c] = "failed" /\ ssent[c] = <<"pubkey", "dh", "IDCollision">>
        /\ client_outboxes[OwnId(ckey[c])] = 0 /\ client_sockets[OwnId(ckey[c])] = 0
        /\ ipc[c] = "none" /\ opc[c] = "none"

\* C7: while the in-worker of a connection is in _send for a relayed message,
\* its steps leave every outbox but the recipient's as it is; the recipient's
\* outbox holds what it held, and after the push that and the one message.
C7_RelayAppendsOne ==
    [][\A c \in Conns :
         (ipc[c] \in {"i_check", "i_create", "i_push"} /\ ipc'[c] # ipc[c]
          /\ isend[c].from = c)
            => /\ \A i \in Ids \ {isend[c].to} :
                    BoxMsgs(client_outboxes', queues', i)
                        = BoxMsgs(client_outboxes, queues, i)
               /\ BoxMsgs(client_outboxes', queues', isend[c].to)
                    = IF ipc[c] = "i_push"
                      THEN Append(BoxMsgs(client_outboxes, queues, isend[c].to),
                                  isend[c].m)
                      ELSE BoxMsgs(client_outboxes, queues, isend[c].to)
      ]_vars

\* C8: of two messages one session relayed to one id, both received, the one
\* the session wrote first is received first.
C8_Fifo ==
    \A i, j \in 1..Len(wire) :
        ( /\ wire[i].rcv /\ wire[j].rcv
          /\ wire[i].e.from # 0 /\ wire[i].e.from = wire[j].e.from
          /\ wire[i].e.to = wire[j].e.to
          /\ wire[i].e.m.v[1] < wire[j].e.m.v[1] )
            => i < j

\* C9: when the handshake finds an outbox for the id (line 195), its steps
\* from there leave the outbox map and every outbox as they are, and the
\* out-worker it starts is given the outbox the id is mapped to.
C9_OutboxRetained ==
    [][\A c \in Conns :
         /\ (spc[c] = "s_outbox" /\ spc'[c] # "s_outbox"
             /\ client_outboxes[shs[c].c_id] # 0)
            => spc'[c] = "s_get" /\ UNCHANGED <<client_outboxes, queues>>
         /\ (spc[c] = "s_get" /\ spc'[c] # "s_get")
            => /\ UNCHANGED <<client_outboxes, queues>>
               /\ shs'[c].outbox = client_outboxes[shs[c].c_id]
         /\ (spc[c] = "s_register" /\ spc'[c] # "s_register" /\ shs[c].found)
            => /\ UNCHANGED <<client_outboxes, queues>>
               /\ opc'[c] = "o_loop" /\ shs'[c].outbox = shs[c].outbox
      ]_vars

\* C9's case: a handshake found an outbox with a message buffered for the id
\* and completed; the message is in the outbox its out-worker drains
C9_Witness ==
    \E c \in Conns :
        /\ spc[c] = "done" /\ shs[c].found /\ opc[c] = "o_loop"
        /\ client_outboxes[shs[c].c_id] = shs[c].outbox
        /\ \E k \in 1..Len(queues[shs[c].outbox]) : queues[shs[c].outbox][k].off

\* C10: a message a client relayed to another id that had no connected
\* session is in an outbox, in the hands of an out-worker, or was written to
\* a socket.
C10_NoOfflineLoss ==
    \A e \in pushed :
        (e.off /\ e.from # 0 /\ e.to # OwnId(ckey[e.from]))
            => \/ \E q \in 1..Len(queues) : \E k \in 1..Len(queues[q]) : queues[q][k] = e
               \/ \E c \in Conns : oheld[c] = e
               \/ \E k \in 1..Len(wire) : wire[k].e = e

\* C11: a session whose socket is closed and whose in-worker is no longer
\* running has no socket handle in the registry and its id is logged out;
\* and the in-worker's exit removes the handle, logs the id out and leaves
\* the outbox map and every outbox as they are.  (The ids of the sessions
\* differ in SpecFrames.)
C11_ClosureCleansUp ==
    /\ [](\A c \in Conns :
            (spc[c] = "done" /\ ~sconn[c] /\ ipc[c] \in {"done", "crashed"})
                => client_sockets[shs[c].c_id] = 0 /\ ~dbLogged[shs[c].c_id])
    /\ [][\A c \in Conns :
            (ipc[c] = "i_exit" /\ ipc'[c] # "i_exit")
                => /\ client_sockets'[shs[c].c_id] = 0 /\ ~dbLogged'[shs[c].c_id]
                   /\ UNCHANGED <<client_outboxes, queues>>
         ]_vars

\* C12: when a connection completes the handshake for an id that has a live
\* session with the same key, the registry's handle for the id becomes the
\* new connection's socket and the new session's outbox is the outbox of the
\* live session, which is the one the id is mapped to.
C12_SecondSessionSharesOutbox ==
    [][\A c, d \in Conns :
         ( /\ c # d /\ spc[c] = "s_register" /\ spc'[c] = "done"
           /\ spc[d] = "done" /\ sconn[d] /\ ipc[d] = "i_loop"
           /\ shs[d].c_id = shs[c].c_id /\ shs[d].pub = shs[c].pub )
            => /\ client_sockets'[shs[c].c_id] = c
               /\ shs'[c].outbox = shs[d].outbox
               /\ client_outboxes'[shs[c].c_id] = shs[d].outbox
      ]_vars

\* C13: the registry maps an id to a connection only if that connection
\* completed the handshake as that id and its session is still live: its
\* socket is connected, or its in-worker is still running (on its way to
\* the exit that removes the handle).
C13_HandleOnlyWhileLive ==
    \A i \in Ids :
        client_sockets[i] # 0 =>
            LET c == client_sockets[i]
            IN  /\ spc[c] = "done" /\ shs[c].c_id = i
                /\ sconn[c] \/ ipc[c] \in {"i_loop", "i_check", "i_create", "i_push",
                                           "i_exit"}

\* the step in which the in-worker of c receives the frame at the head of its
\* socket's queue
InReads(c) ==
    /\ ipc[c] = "i_loop" /\ sconn[c] /\ c2s[c] # <<>>
    /\ c2s'[c] = Tail(c2s[c])

\* the entry of a reply the server makes for connection c
Reply(c, type) == [m |-> Msg(ServerId, type, <<>>), from |-> 0, to |-> shs[c].c_id,
                   off |-> FALSE]

\* the step in which the in-worker of c pushes a reply of this type appends
\* exactly it to the outbox of c's id, and the in-worker goes on with its loop
ReplyPushed(c, type) ==
    (ipc[c] = "i_push" /\ ipc'[c] # "i_push" /\ isend[c] = Reply(c, type))
        => /\ BoxMsgs(client_outboxes', queues', shs[c].c_id)
                = Append(BoxMsgs(client_outboxes, queues, shs[c].c_id),
                         Msg(ServerId, type, <<>>))
           /\ ipc'[c] = "i_loop"

\* C14: when the in-worker receives a frame without separator (one field:
\* text, or bytes that are no text), it calls _send with CiphertextMalformed,
\* first field "0", for its own client's id, and the push appends that
\* message to the id's outbox.
C14_NoSeparatorReply ==
    [][\A c \in Conns :
         /\ (InReads(c) /\ Len(Head(c2s[c])) = 1)
               => ipc'[c] = "i_check" /\ isend'[c] = Reply(c, "CiphertextMalformed")
         /\ (ipc[c] = "i_check" /\ ipc'[c] # "i_check"
              /\ isend[c] = Reply(c, "CiphertextMalformed"))
               => ipc'[c] = "i_push" /\ isend'[c] = isend[c]
         /\ ReplyPushed(c, "CiphertextMalformed")
      ]_vars

\* C14's case: frames without separator were answered: the outbox of the
\* client's id holds CiphertextMalformed replies only, one per frame written
C14_Witness ==
    \E c \in Conns :
        /\ nframes = 2 /\ c2s[c] = <<>> /\ ipc[c] = "i_loop" /\ spc[c] = "done"
        /\ BoxMsgs(client_outboxes, queues, shs[c].c_id)
             = <<Msg(ServerId, "CiphertextMalformed", <<>>),
                 Msg(ServerId, "CiphertextMalformed", <<>>)>>

\* a frame of text with a separator and an IV that int(x, 16) accepts, whose
\* ciphertext part does not decrypt under the session's key
Undecryptable(pkt, key) ==
    /\ Len(pkt) >= 2 /\ \A k \in 1..Len(pkt) : pkt[k].k # "bin"
    /\ IsHex(pkt[1])
    /\ ~(Len(pkt) = 2 /\ IsHexBytes(pkt[2])
          /\ decrypt_cbc(pkt[2], key, pkt[1].a).st = "ok")

\* C15: when the in-worker receives a frame with a separator and a parseable
\* IV whose ciphertext does not decrypt, it calls _send with
\* MessageDecryptionFailure for its own client's id, the push appends that
\* message to the id's outbox, and the in-worker stays in its loop.
C15_UndecryptableReply ==
    [][\A c \in Conns :
         /\ (InReads(c) /\ Undecryptable(Head(c2s[c]), shs[c].key))
               => ipc'[c] = "i_check"
                  /\ isend'[c] = Reply(c, "MessageDecryptionFailure")
         /\ ReplyPushed(c, "MessageDecryptionFailure")
      ]_vars

\* the positions of the in-worker inside its loop (_send included)
InWorkerRuns(c) == ipc[c] \in {"i_loop", "i_check", "i_create", "i_push"}

\* C16: the in-worker leaves its loop only by finding its socket not
\* connected (towards lines 262-267); whatever frame it receives, it is in
\* its loop afterwards, and the frame leaves the socket connected unless it
\* is a Quit to the server.
C16_OnlyClosureStopsWorker ==
    [][\A c \in Conns :
         /\ (InWorkerRuns(c) /\ ~InWorkerRuns(c)')
               => ~sconn[c] /\ ipc'[c] = "i_exit"
         /\ (InReads(c) /\ ~sconn'[c])
               => /\ frame_check(Head(c2s[c]), shs[c].key) = "handle"
                  /\ decrypt_cbc(Head(c2s[c])[2], shs[c].key, Head(c2s[c])[1].a).m.t
                       = "Quit"
      ]_vars

\* the error replies of the in-worker
ErrorTypes == {"CiphertextMalformed", "InvalidIV", "MessageDecryptionFailure",
               "MessageMalformed"}

\* a frame that is malformed (no text, no separator, no IV), does not
\* decrypt, or decrypts to something that is no message
BadFrame(pkt, key) ==
    \/ \E k \in 1..Len(pkt) : pkt[k].k = "bin"
    \/ Len(pkt) < 2
    \/ ~IsHex(pkt[1])
    \/ Undecryptable(pkt, key)
    \/ ~decrypt_cbc(pkt[2], key, pkt[1].a).m.ok

\* a step leaves alone every outbox but that of id i, the registry, the
\* directory, the sockets, and the workers of every connection but c
OthersUntouched(c, i) ==
    /\ \A j \in Ids \ {i} :
          BoxMsgs(client_outboxes', queues', j) = BoxMsgs(client_outboxes, queues, j)
    /\ UNCHANGED <<client_sockets, dbKey, dbLogged, sconn>>
    /\ \A d \in Conns \ {c} : ipc'[d] = ipc[d] /\ opc'[d] = opc[d]

\* C17: a bad frame received from a client makes the in-worker call _send
\* with one error reply for that client's id; the steps of that call append
\* the reply to that id's outbox and touch no other outbox, no registry
\* entry, no directory entry, no socket and no other connection's workers.
C17_BadFrameTouchesOnlySender ==
    [][\A c \in Conns :
         /\ (InReads(c) /\ BadFrame(Head(c2s[c]), shs[c].key))
               => /\ ipc'[c] = "i_check"
                  /\ \E t \in ErrorTypes : isend'[c] = Reply(c, t)
                  /\ OthersUntouched(c, shs[c].c_id)
                  /\ UNCHANGED <<client_outboxes, queues>>
         /\ (InWorkerRuns(c) /\ ipc'[c] # ipc[c]
              /\ \E t \in ErrorTypes : isend[c] = Reply(c, t))
               => /\ OthersUntouched(c, shs[c].c_id)
                  /\ ReplyPushed(c, isend[c].m.t)
      ]_vars

\* the part of C17 about the others: whatever frame connection c's in-worker
\* receives and however it ends, the step touches nothing of anybody else
C17_OthersUntouched ==
    [][\A c \in Conns :
         (InReads(c) /\ BadFrame(Head(c2s[c]), shs[c].key))
               => OthersUntouched(c, shs[c].c_id) /\ UNCHANGED <<client_outboxes, queues>>
      ]_vars

\* a frame that decrypts and parses to a GetKey for the server
GetKeyFrame(pkt, key) ==
    /\ Len(pkt) = 2 /\ IsHex(pkt[1]) /\ pkt[2].k = "ct"
    /\ decrypt_cbc(pkt[2], key, pkt[1].a).st = "ok"
    /\ decrypt_cbc(pkt[2], key, pkt[1].a).m.ok
    /\ decrypt_cbc(pkt[2], key, pkt[1].a).m.r = ServerId
    /\ decrypt_cbc(pkt[2], key, pkt[1].a).m.t = "GetKey"

\* the reply the spec gives for GetKey(request_index, target_id)
KeyReply(request_index, target_id) ==
    IF dbKey[target_id] # NoKey
    THEN [r |-> ServerId, t |-> "KeyFound",
          v |-> <<request_index, dbKey[target_id][1], dbKey[target_id][2]>>, ok |-> TRUE]
    ELSE [r |-> ServerId, t |-> "KeyNotFound", v |-> <<request_index>>, ok |-> TRUE]

\* C18: a GetKey(request_index, target_id) for the server makes the in-worker
\* call _send once, for its own client's id, with KeyFound(request_index,
\* exp, mod) of the directory's key when the directory knows target_id and
\* KeyNotFound(request_index) otherwise, first field "0"; the steps of
\* that call append exactly this reply to that id's outbox and change no
\* other outbox.
C18_GetKeyOneReply ==
    [][\A c \in Conns :
         /\ (InReads(c) /\ GetKeyFrame(Head(c2s[c]), shs[c].key))
               => LET msg == decrypt_cbc(Head(c2s[c])[2], shs[c].key, Head(c2s[c])[1].a).m
                  IN  /\ ipc'[c] = "i_check"
                      /\ isend'[c] = [m |-> KeyReply(msg.v[1], msg.v[2]), from |-> 0,
                                      to |-> shs[c].c_id, off |-> FALSE]
                      /\ UNCHANGED <<client_outboxes, queues>>
         /\ (InWorkerRuns(c) /\ ipc'[c] # ipc[c] /\ isend[c].from = 0
              /\ isend[c].m.t \in {"KeyFound", "KeyNotFound"})
               => /\ isend[c].to = shs[c].c_id
                  /\ \A j \in Ids \ {shs[c].c_id} :
                        BoxMsgs(client_outboxes', queues', j)
                          = BoxMsgs(client_outboxes, queues, j)
                  /\ ipc[c] = "i_check"
                       => /\ ipc'[c] = "i_push" /\ isend'[c] = isend[c]
                          /\ UNCHANGED <<client_outboxes, queues>>
                  /\ ipc[c] = "i_push"
                       => /\ ipc'[c] = "i_loop" /\ isend'[c] = NoEntry
                          /\ BoxMsgs(client_outboxes', queues', shs[c].c_id)
                               = Append(BoxMsgs(client_outboxes, queues, shs[c].c_id),
                                        isend[c].m)
      ]_vars

\* C18's case: one client asked for the key of an id the directory knows and
\* for that of an id it does not know, and its outbox holds the two replies
C18_Witness ==
    \E c \in Conns : \E i, j \in Ids :
        /\ dbKey[i] # NoKey /\ dbKey[j] = NoKey /\ ipc[c] = "i_loop"
        /\ BoxMsgs(client_outboxes, queues, shs[c].c_id)
             = <<[r |-> ServerId, t |-> "KeyFound",
                  v |-> <<1, dbKey[i][1], dbKey[i][2]>>, ok |-> TRUE],
                 [r |-> ServerId, t |-> "KeyNotFound", v |-> <<2>>, ok |-> TRUE]>>

\* a frame that decrypts and parses to a Quit for the server
QuitFrame(pkt, key) ==
    /\ Len(pkt) = 2 /\ IsHex(pkt[1]) /\ pkt[2].k = "ct"
    /\ decrypt_cbc(pkt[2], key, pkt[1].a).st = "ok"
    /\ decrypt_cbc(pkt[2], key, pkt[1].a).m.ok
    /\ decrypt_cbc(pkt[2], key, pkt[1].a).m.r = ServerId
    /\ decrypt_cbc(pkt[2], key, pkt[1].a).m.t = "Quit"

\* C19: when the in-worker of a connection receives a Quit for the server,
\* the socket that gets closed is that connection's and no other, whatever
\* sessions the id had or has; the in-worker stays in its loop (to find the
\* socket closed), and when it leaves lines 262-267 the id is logged out.
C19_QuitClosesOwnSocket ==
    [][\A c \in Conns :
         /\ (InReads(c) /\ QuitFrame(Head(c2s[c]), shs[c].key))
               => /\ ~sconn'[c]
                  /\ \A d \in Conns \ {c} : sconn'[d] = sconn[d]
                  /\ ipc'[c] = "i_loop"
         /\ (ipc[c] = "i_exit" /\ ipc'[c] # "i_exit") => ~dbLogged'[shs[c].c_id]
      ]_vars

\* the step in which close() closes the socket (line 213)
ClosesSocket(c) == caller[c]["app"] = "c_close" /\ caller'[c]["app"] = "returned"

\* the numbers of the messages in the out-queue
Queued(c) == {out_queue[c][k].n : k \in 1..Len(out_queue[c])}

SrvUnparseable(phase, pkt) ==
    IF phase = "s_identity"
    THEN /\ ~IsTok(pkt, "MalformedIdentity") /\ ~IsTok(pkt, "PubKeyFpMismatch")
         /\ (Len(pkt) # 3 \/ ~IsHex(pkt[2]) \/ ~IsHex(pkt[3]))
    ELSE IF phase = "s_dh"
    THEN /\ ~IsTok(pkt, "BadSignature") /\ ~IsTok(pkt, "MalformedDiffieHellman")
         /\ (Len(pkt) # 2 \/ ~IsHex(pkt[1]))
    ELSE IF phase = "s_confirm"
    THEN /\ ~IsTok(pkt, "MalformedChallenge") /\ ~IsTok(pkt, "CouldNotDecrypt")
         /\ (Len(pkt) # 1 \/ ~IsHexBytes(pkt[1]))
    ELSE FALSE

\* the same for the client's handshake
CliUnparseable(phase, pkt) ==
    IF phase = "c_key"
    THEN Len(pkt) # 2 \/ ~IsHex(pkt[1]) \/ ~IsHex(pkt[2])
    ELSE IF phase = "c_auth"
    THEN /\ ~IsTok(pkt, "MalformedIdentity") /\ ~IsTok(pkt, "PubKeyIdMismatch")
         /\ (Len(pkt) # 2 \/ ~IsHex(pkt[1]))
    ELSE IF phase = "c_challenge"
    THEN /\ ~IsTok(pkt, "MalformedDiffieHellman") /\ ~IsTok(pkt, "BadSignature")
         /\ ~IsTok(pkt, "IDCollision")
         /\ (Len(pkt) # 2 \/ ~IsHex(pkt[1]) \/ ~IsHexBytes(pkt[2]))
    ELSE FALSE

\* the Malformed* token of each phase
MalformedToken(phase) ==
    IF phase \in {"s_identity", "c_key"} THEN "MalformedIdentity"
    ELSE IF phase \in {"s_dh", "c_auth"} THEN "MalformedDiffieHellman"
    ELSE IF phase = "s_confirm" THEN "MalformedResponse"
    ELSE "MalformedChallenge"

\* the step in which the handshake of a side receives the packet at the
\* head of its queue, its socket being connected
SrvHsReads(c) == sconn[c] /\ c2s[c] # <<>> /\ spc'[c] # spc[c]
CliHsReads(c) == cconn[c] /\ s2c[c] # <<>> /\ cpc'[c] # cpc[c]

\* C21: at every phase of the handshake, on the server and on the client, a
\* packet that cannot be parsed makes the receiver send the Malformed* token
\* of the phase and close its socket; and a handshake routine that has ended
\* without success has closed its socket.
C21_ParseFailureToken ==
    /\ [](\A c \in Conns :
            /\ (spc[c] \in {"failed", "crashed"}) => ~sconn[c]
            /\ (cpc[c] = "raised") => ~cconn[c])
    /\ [][\A c \in Conns :
            /\ (SrvHsReads(c) /\ SrvUnparseable(spc[c], Head(c2s[c])))
                  => /\ ssent'[c] = Append(ssent[c], MalformedToken(spc[c]))
                     /\ ~sconn'[c] /\ spc'[c] = "failed"
            /\ (CliHsReads(c) /\ CliUnparseable(cpc[c], Head(s2c[c])))
                  => /\ csent'[c] = Append(csent[c], MalformedToken(cpc[c]))
                     /\ ~cconn'[c] /\ cpc'[c] = "raised"
       ]_vars

\* the abort tokens the client can send at each phase of the server's
\* handshake, and the server at each phase of the client's
SrvAbortToken(phase, pkt) ==
    \/ phase = "s_identity"
         /\ (IsTok(pkt, "MalformedIdentity") \/ IsTok(pkt, "PubKeyFpMismatch"))
    \/ phase = "s_dh"
         /\ (IsTok(pkt, "MalformedDiffieHellman") \/ IsTok(pkt, "BadSignature"))
    \/ phase = "s_confirm"
         /\ (IsTok(pkt, "MalformedChallenge") \/ IsTok(pkt, "CouldNotDecrypt"))

CliAbortToken(phase, pkt) ==
    \/ phase = "c_auth"
         /\ (IsTok(pkt, "MalformedIdentity") \/ IsTok(pkt, "PubKeyIdMismatch"))
    \/ phase = "c_challenge"
         /\ (IsTok(pkt, "MalformedDiffieHellman") \/ IsTok(pkt, "BadSignature")
             \/ IsTok(pkt, "IDCollision"))
    \/ phase = "c_final"
         /\ (IsTok(pkt, "MalformedResponse") \/ IsTok(pkt, "Incorrect"))

C22_ClientAborted ==
    \E c \in Conns : cpc[c] = "raised" /\ chs[c].exc = "ServerConnectionAbort"

\* C23: decrypt_cbc of what encrypt_cbc made of a plaintext, with the same
\* key and IV, returns that plaintext, whatever pad drew: nothing is raised
\* and no byte of either padding is left or missing.
C23_RoundTrip ==
    aes.pc = "decrypted" => aes.out = [st |-> "ok", data |-> aes.data]

\* C23's case: the empty plaintext came back from a ciphertext whose padded
\* plaintext filled its blocks, so that PKCS#7 added a whole block
C23_Witness ==
    /\ aes.pc = "decrypted" /\ aes.data = <<>> /\ aes.out.data = <<>>
    /\ Len(aes.ct) = MacLen + 2 * BlockLen

\* the ids of one handshake: the one the server recomputed and accepted
\* (c_id is kept only when line 127 found it equal to the fingerprint)
IdsHaveLength(n) ==
    \A c \in Conns : shs[c].c_id # NoId => shs[c].c_id[1] = n
\* the step in which ServerConnection._handshake sends its identity packet
AnnouncesLength(n) ==
    \A c \in Conns :
        (kind[c] = "honest" /\ csent'[c] = Append(csent[c], "identity"))
            => c2s'[c][Len(c2s'[c])][1] = IdF(<<n, c2s'[c][Len(c2s'[c])][1].b>>)

HandshakeSends == <<"pubkey", "dh", "challenge", "OK">>
\* the server's n-th handshake send happens on connection c in this step
SrvSendsNth(c, n) ==
    ssent'[c] = Append(ssent[c], HandshakeSends[n])

\* C25: within one handshake the server sends public key, signed DH value,
\* encrypted challenge and OK in this order, each of the last three only in
\* a step that received a client packet and validated it: the DH value with
\* the fingerprint check passed, the challenge with the DH signature verified
\* and the directory login done, OK with the challenge response matching.
C25_SendsInOrderAfterChecks ==
    [][\A c \in Conns :
         /\ \A n \in 1..4 : SrvSendsNth(c, n) =>
               ssent[c] = SubSeq(HandshakeSends, 1, n - 1)
         /\ \A n \in 2..4 : SrvSendsNth(c, n) => c2s[c] # <<>> /\ c2s'[c] = Tail(c2s[c])
         /\ SrvSendsNth(c, 2) => shs'[c].fpOk
         /\ SrvSendsNth(c, 3) => shs'[c].sigOk /\ shs'[c].loginOk
         /\ SrvSendsNth(c, 4) => shs'[c].respOk]_vars

C25_Witness ==
    /\ ssent[1] = HandshakeSends
    /\ shs[1].fpOk /\ shs[1].sigOk /\ shs[1].loginOk /\ shs[1].respOk

\* client and server follow the protocol, the configured fingerprint is the
\* server's, and the directory binds the client's id to no other key
HonestStart(c) ==
    /\ kind[c] = "honest" /\ cfp[c] = ServerFp
    /\ ~user_login_collides(ClientId(ckey[c]), PubKey(ckey[c]))
\* the server started the workers and the client's connect returned
HandshakeComplete(c) ==
    /\ spc[c] = "done" /\ ipc[c] # "none" /\ opc[c] # "none"
    /\ cpc[c] = "connected"

\* C26: with a client and a server that follow the protocol, a configured
\* fingerprint that matches the server's key and no ID collision, the
\* handshake completes on both sides: the server starts the workers, the
\* client's connect returns, and neither side waits forever for a packet.
C26_HonestHandshakeCompletes ==
    \A c \in {1} : HonestStart(c) ~> HandshakeComplete(c)

C26_Witness ==
    /\ kind[1] = "honest" /\ cfp[1] = ServerFp
    /\ spc[1] = "done" /\ cpc[1] = "connected"
    /\ s2c[1] = <<>> /\ c2s[1] = <<>>
    /\ ssent[1] = HandshakeSends

\* C27: when two threads reference the same previously unknown client ID at
\* the same time (two in-workers relaying to it, or one in-worker and the
\* ID's handshake), exactly one outbox is created for the ID: the ID's entry
\* in the outbox map is set once and never replaced, and every message
\* pushed for the ID and not yet popped is in the outbox the ID is mapped to.
C27_OneOutboxPerId ==
    /\ [][\A i \in Ids :
            client_outboxes'[i] # client_outboxes[i] => client_outboxes[i] = 0]_vars
    /\ [](\A q \in 1..Len(queues) : \A k \in 1..Len(queues[q]) :
            client_outboxes[queues[q][k].to] = q)

\* the out-worker of connection c is in its loop (lines 280-289)
OutWorkerRuns(c) == opc[c] \in {"o_loop", "o_if", "o_pop", "o_send"}

\* C28: in every reachable state at most one out-worker pops from any given
\* outbox: no two running out-workers were given the same outbox.
C28_OnePopperPerOutbox ==
    \A c, d \in Conns :
        (c # d /\ OutWorkerRuns(c) /\ OutWorkerRuns(d))
            => shs[c].outbox # shs[d].outbox

\* where a pushed message is: the places in the outboxes, the out-workers
\* holding it between pop and send, the writes of it to a socket
InOutboxes(e) ==
    UNION {{<<q, k>> : k \in {j \in 1..Len(queues[q]) : queues[q][j] = e}} :
             q \in 1..Len(queues)}
HeldBy(e) == {c \in Conns : oheld[c] = e}
WrittenAt(e) == {k \in 1..Len(wire) : wire[k].e = e}
\* the step in which connection c's out-worker's send raises SocketException
OutSendFails(c) == opc[c] = "o_send" /\ opc'[c] # "o_send" /\ ~sconn[c]

\* C29: every message pushed to an outbox (the relayed messages, which their
\* frame number tells apart) is at any time in at most one place: in one
\* outbox once, or held by one out-worker, or written once to one socket;
\* and the step in which an out-worker's send fails drops the message it
\* held and leaves every outbox and every socket as it was.
C29_AtMostOnce ==
    /\ [](\A e \in pushed : e.from # 0 =>
            Cardinality(InOutboxes(e)) + Cardinality(HeldBy(e))
                + Cardinality(WrittenAt(e)) <= 1)
    /\ [][\A c \in Conns : OutSendFails(c) =>
            oheld'[c] = NoEntry /\ UNCHANGED <<queues, wire>>]_vars

\* C29's cases: one relayed message was popped and written to a socket,
\* another was popped by an out-worker whose send failed and is gone
C29_Witness ==
    \E e, f \in pushed :
        /\ e.from # 0 /\ Cardinality(WrittenAt(e)) = 1
        /\ f.from # 0 /\ InOutboxes(f) = {} /\ HeldBy(f) = {} /\ WrittenAt(f) = {}

\* C30: after a session's socket became disconnected, both the session's
\* in-worker and its out-worker eventually terminate (the thread's function
\* returns or ends on an exception), whatever the interleaving, also when
\* another session of the same ID shares the outbox.
C30_WorkersTerminate ==
    \A c \in 1..MaxSessions :
        (spc[c] = "done" /\ ~sconn[c])
            ~> (ipc[c] \in {"done", "crashed"} /\ opc[c] = "done")

\* a frame that decrypts and parses to a message for the server of a known
\* type without a handler of its own
DefaultFrame(pkt, key) ==
    /\ Len(pkt) = 2 /\ IsHex(pkt[1]) /\ pkt[2].k = "ct"
    /\ decrypt_cbc(pkt[2], key, pkt[1].a).st = "ok"
    /\ decrypt_cbc(pkt[2], key, pkt[1].a).m.ok
    /\ decrypt_cbc(pkt[2], key, pkt[1].a).m.r = ServerId
    /\ decrypt_cbc(pkt[2], key, pkt[1].a).m.t \in DefaultTypes

\* C31: when the in-worker receives a server-directed message of a known
\* type that has no dedicated handler, the step calls _send for nothing and
\* changes no outbox, no registry entry, no directory entry and no socket;
\* the in-worker goes on with its loop.
C31_DefaultTypesNoAction ==
    [][\A c \in Conns :
         (InReads(c) /\ DefaultFrame(Head(c2s[c]), shs[c].key))
            => /\ ipc'[c] = "i_loop" /\ isend'[c] = NoEntry
               /\ UNCHANGED <<client_outboxes, queues, client_sockets, dbVars, sconn>>
      ]_vars

\* C31's case: the in-worker is about to receive an error report of its
\* client, whose id's outbox holds the reply to an earlier frame
C31_Witness ==
    \E c \in Conns :
        /\ ipc[c] = "i_loop" /\ sconn[c] /\ c2s[c] # <<>>
        /\ DefaultFrame(Head(c2s[c]), shs[c].key)
        /\ decrypt_cbc(Head(c2s[c])[2], shs[c].key, Head(c2s[c])[1].a).m.t
             = "MessageDecryptionFailure"
        /\ BoxMsgs(client_outboxes, queues, shs[c].c_id) # <<>>

\* the MAC that decrypt_cbc splits off the call's ciphertext is the one
\* hmac gives for the rest (lines 679-683, 699)
MacMatches ==
    /\ Len(aes.ct) >= MacLen
    /\ hmac_verify(SubSeq(aes.ct, Len(aes.ct) - MacLen + 1, Len(aes.ct)),
                   SubSeq(aes.ct, 1, Len(aes.ct) - MacLen), aes.iv, aes.key)

\* C32: whatever ciphertext, key and IV decrypt_cbc is given, the call
\* returns plaintext or raises DecryptionFailureException, no other
\* exception; and with a MAC that does not match it raises
\* DecryptionFailureException, whatever the padding is.
C32_OnlyDecryptionFailure ==
    aes.pc = "decrypted" =>
        /\ aes.out.st \in {"ok", "fail"}
        /\ ~MacMatches => aes.out.st = "fail"

\* the random-padding header of payload d declares more padding than d
\* holds after its 4-byte header
OverDeclared(d) ==
    from_bytes(PySlice(d, 0, 2)) + from_bytes(PySlice(d, 2, 4)) > Len(d) - 4

\* C33: decrypt_cbc returns no data for a ciphertext whose payload, once
\* the PKCS#7 padding is taken off, has a random-padding header that
\* declares more leading plus trailing bytes than the payload holds after
\* the header.
C33_OverDeclaredRejected ==
    ( /\ aes.pc = "decrypted"
      /\ remove_pkcs7(aes.data).st = "ok"
      /\ Len(remove_pkcs7(aes.data).data) >= 4
      /\ OverDeclared(remove_pkcs7(aes.data).data) )
        => aes.out.st # "ok"

\* C35: every frame an out-worker writes after the handshake is
\* iv_hex ":" ciphertext_hex with iv_hex the lowercase hexadecimal digits
\* alone, without a "0x" prefix: the frames of the server's out-worker (wire)
\* and those of the client's out-worker (c2s).
Unprefixed(f) == f.k = "hex" /\ f.s # "0x"
FrameForm(fr) == Len(fr) = 2 /\ Unprefixed(fr[1]) /\ fr[2].k = "ct"
C35_FramesUnprefixed ==
    /\ \A k \in 1..Len(wire) : FrameForm(wire[k].f)
    /\ \A c \in 1..MaxSessions :
         (kind[c] = "honest" /\ cpc[c] = "connected") =>
             \A k \in 1..Len(c2s[c]) : FrameForm(c2s[c][k])
\* the client's half of C35 alone
ClientFramesUnprefixed ==
    \A c \in 1..MaxSessions :
        (kind[c] = "honest" /\ cpc[c] = "connected") =>
            \A k \in 1..Len(c2s[c]) : FrameForm(c2s[c][k])

\* C36: an ID is marked logged in only while a session of that ID is past
\* the directory login and on its way to registration, or has completed the
\* handshake and has not been torn down; in particular a handshake that fails
\* after the login (malformed, undecryptable or incorrect challenge response)
\* leaves the ID logged out.
PastLogin == {"s_confirm", "s_outbox", "s_get", "s_new", "s_register"}
SessionLive(c) == spc[c] = "done" /\ ipc[c] \notin {"done", "crashed"}
C36_LoggedInOnlyLive ==
    \A id \in Ids :
        dbLogged[id] =>
            \E c \in Conns : shs[c].c_id = id /\ (spc[c] \in PastLogin \/ SessionLive(c))

\* C37: when the in-worker of an older session exits while the registry holds
\* the handle of a newer session of the same ID, the registry keeps that
\* handle and the ID stays logged in; and the exit of a session whose older
\* namesake has exited completes its cleanup without raising.
ExitStep(c) == ipc[c] = "i_exit" /\ ipc'[c] # "i_exit"
NewerRegistered(c) == client_sockets[shs[c].c_id] \notin {0, c}
OlderExited(c) ==
    \E d \in Conns \ {c} : shs[d].c_id = shs[c].c_id /\ ipc[d] \in {"done", "crashed"}
C37_OlderExitKeepsNewer ==
    [][\A c \in Conns :
         /\ (ExitStep(c) /\ NewerRegistered(c))
               => /\ client_sockets'[shs[c].c_id] = client_sockets[shs[c].c_id]
                  /\ dbLogged'[shs[c].c_id]
         /\ (ExitStep(c) /\ OlderExited(c)) => ipc'[c] = "done"]_vars

\* C38: the in-worker leaves its loop only when every frame the socket had
\* received has been processed: no frame delivered before the connection
\* closed is still queued when the worker goes to its exit.
LeavesLoop(c) == ipc[c] = "i_loop" /\ ipc'[c] = "i_exit"
C38_DrainsBeforeExit ==
    [][\A c \in Conns : LeavesLoop(c) => c2s[c] = <<>>]_vars

\* C39: a call of close() that found the socket connected returns in the
\* end, also when the connection dies while messages wait in the out-queue.
InClose(c) == caller[c]["app"] \in {"c_empty", "c_lock", "c_close"}
C39_CloseReturns ==
    \A c \in CloseConns : InClose(c) ~> (caller[c]["app"] = "returned")

\* C40: the client's in-worker puts into the in-queue only the plaintext of
\* a frame that split into IV and ciphertext, whose IV parsed and which
\* decrypted; a frame that fails one of the three is not delivered, the
\* matching report (CiphertextMalformed, InvalidIV,
\* MessageDecryptionFailure) is queued for the server while the connection is
\* up, and the in-worker goes on with its loop.
Splits(pkt) == Len(pkt) = 2 /\ IsHexBytes(pkt[2])
Decrypts(pkt, key) == decrypt_cbc(pkt[2], key, pkt[1].a).st = "ok"
FrameSucceeds(pkt, key) == Splits(pkt) /\ IsHex(pkt[1]) /\ Decrypts(pkt, key)
MatchingReport(pkt, key) ==
    IF ~Splits(pkt) THEN "CiphertextMalformed"
    ELSE IF ~IsHex(pkt[1]) THEN "InvalidIV"
    ELSE "MessageDecryptionFailure"
CliInTakes(c) == tin[c].pc = "t_loop" /\ tin'[c].n = tin[c].n + 1
C40_OnlyDecryptedDelivered ==
    [][\A c \in Conns :
         LET pkt == Head(s2c[c])
             key == chs[c].key
         IN  /\ Len(in_queue'[c]) > Len(in_queue[c])
                   => /\ CliInTakes(c) /\ FrameSucceeds(pkt, key)
                      /\ in_queue'[c] =
                             Append(in_queue[c], decrypt_cbc(pkt[2], key, pkt[1].a).m)
             /\ (CliInTakes(c) /\ ~FrameSucceeds(pkt, key))
                   => /\ in_queue'[c] = in_queue[c]
                      /\ tin'[c].pc = "t_report"
                      /\ tin'[c].rep = MatchingReport(pkt, key)
             /\ (tin[c].pc = "t_report" /\ tin'[c] # tin[c] /\ cconn[c])
                   => /\ tin'[c].pc = "t_loop"
                      /\ out_queue'[c] # <<>>
                      /\ out_queue'[c][Len(out_queue'[c])].m = error_msg(tin[c].rep)
                      /\ in_queue'[c] = in_queue[c]]_vars
====
